---- MODULE Spec2Model ----
(***************************************************************************)
(* Model of the NestJS integration service: the SQS consumer               *)
(* (sqs-consumer.service.ts), the idempotency manager and its stores       *)
(* (idempotency.util.ts, idempotency.service.ts), the Pimcore call chain   *)
(* (pimcore.service.ts: circuit breaker around retryWithBackoff) and the   *)
(* circuit breaker (circuit-breaker.util.ts).                              *)
(*                                                                         *)
(* One action is one synchronous block of a handler, from one await to the *)
(* next: JavaScript runs such a block without interleaving, and any other  *)
(* dispatch of the same batch may run between two blocks.                  *)
(***************************************************************************)
EXTENDS Integers, Sequences, FiniteSets, TLC

(***************************************************************************)
(* Bounds of the model                                                     *)
(***************************************************************************)
MaxTime == 3
MaxDeliveries == 2
MaxFaults == 1
NCalls == 4
TtlMs == 1
FailureThreshold == 1
ResetTimeout == 1

(***************************************************************************)
(* Program constants                                                       *)
(***************************************************************************)
MaxAttempts == 3
SuccessThreshold == 2
MaxMessages == 10

\* the messages on the queue: message 1 has any body, message 2 is a well-formed
\* event of product p1, so that the two carry the same key when message 1 is that
\* event too
Msgs == {1, 2}

(***************************************************************************)
(* Message bodies.  A body either fails JSON.parse, or parses to an event  *)
(* detail whose product may be missing; a present product carries an id    *)
(* and the detail an eventId, either of which may be undefined.  A missing *)
(* id is the JavaScript value undefined, which a template literal prints   *)
(* as the text "undefined".                                                *)
(***************************************************************************)
Undefined == "undefined"
ProductIds == {"p1", Undefined}
EventIds == {"e1", Undefined}

Bodies ==
    {[parses |-> FALSE, hasProduct |-> FALSE, productId |-> Undefined, eventId |-> Undefined],
     [parses |-> TRUE, hasProduct |-> FALSE, productId |-> Undefined, eventId |-> "e1"]}
    \cup {[parses |-> TRUE, hasProduct |-> TRUE, productId |-> p, eventId |-> e] :
            p \in ProductIds, e \in EventIds}

\* the body of message 2
WellFormed == [parses |-> TRUE, hasProduct |-> TRUE, productId |-> "p1", eventId |-> "e1"]

generateKey(productId, eventId) == "product:" \o productId \o ":event:" \o eventId

Keys == {generateKey(p, e) : p \in ProductIds, e \in EventIds}

(***************************************************************************)
(* Idempotency store                                                       *)
(***************************************************************************)
NOT_FOUND == "NOT_FOUND"
PROCESSING == "PROCESSING"
COMPLETED == "COMPLETED"
FAILED == "FAILED"

NoEntry == [status |-> NOT_FOUND, expiresAt |-> 0]

CLOSED == "CLOSED"
OPEN == "OPEN"
HALF_OPEN == "HALF_OPEN"
NoTime == -1

VARIABLES
    now,              \* Date.now()
    storeKind,        \* "memory" (InMemoryIdempotencyStore) or "redis" (RedisIdempotencyStore)
    store,            \* the store's map: key -> entry
    body,             \* message -> its body
    queue,            \* message -> "visible" | "inflight" | "deleted"
    receiveCount,     \* message -> number of receives (owned by the queue)
    isProcessing,     \* SqsConsumerService.isProcessing
    shouldStop,       \* SqsConsumerService.shouldStop
    cycle,            \* position of pollMessages: "idle" | "receiving" | "dispatching"
    metrics,          \* [processed, skipped, failed]
    pc,               \* message -> position of its processMessageWithRetry
    lockStatus,       \* message -> status returned by checkAndLock ("none" before)
    invocations,      \* message -> invocations of doUpsertProduct by this dispatch
    ackIssued,        \* message -> deleteMessage was called in this dispatch
    outcome,          \* message -> "none" | "resolved" | "rejected"
    cause,            \* message -> the first failure met in this dispatch ("none" before)
    breaker,          \* the 'pimcore' CircuitBreaker
    upserts,          \* key -> successful upserts so far
    faultCount,       \* failures of collaborators so far (store, queue delete, timeout)
    lastWrite,        \* key -> the last write of the key a caller made: a set or a release
    lastCall,         \* the last call made on the idempotency store or manager, with its result
    calls,            \* call -> an execute call made on the breaker directly
    hist,             \* outcomes the breaker recorded in a row
    keyProbe,         \* two (entityId, eventId) pairs and the keys generateKey gave them
    registry,         \* the circuitBreakers map, the breakers made and the references handed out
    retry,            \* a run of retryWithBackoff or a call of calculateDelay, with its result
    polls,            \* the invocations of pollMessages by the interval timer
    sync              \* the product.synced.pimcore events emitted and their listeners

timeVars == <<now>>
storeVars == <<storeKind, store>>
queueVars == <<body, queue, receiveCount>>
pollVars == <<isProcessing, shouldStop, cycle>>
taskVars == <<pc, lockStatus, invocations, ackIssued, outcome, cause>>
downVars == <<upserts, faultCount>>
probeVars == <<keyProbe, registry, retry, polls, sync>>
unitVars == <<lastWrite, lastCall, calls, hist, probeVars>>
vars == <<timeVars, storeVars, queueVars, pollVars, metrics, taskVars, breaker, downVars, unitVars>>

(***************************************************************************)
(* InMemoryIdempotencyStore / RedisIdempotencyStore                        *)
(***************************************************************************)
\* an expiry test that never finds an entry expired; C11_GetHonoursTtl rejects it
ExpiredNever(entry, t) == FALSE

\* the in-memory get's expiry test is Date.now() > entry.expiresAt; Redis, told
\* PX ttlMs, no longer has the key once ttlMs have passed
Expired(entry, t) == IF storeKind = "memory" THEN t > entry.expiresAt ELSE t >= entry.expiresAt

\* an entry that get returns at time t
Live(entry, t) == entry.status # NOT_FOUND /\ ~Expired(entry, t)

\* a get that forgets the expiry test; C3_CheckAndLock rejects it
StoreGetStale(st, key, t) == st[key]

\* the record get(key) returns, NoEntry standing for null
StoreGet(st, key, t) == IF Live(st[key], t) THEN st[key] ELSE NoEntry

\* the map after get(key): the in-memory store deletes an expired entry it finds
StoreAfterGet(kind, st, key, t) ==
    IF kind = "memory" /\ st[key].status # NOT_FOUND /\ Expired(st[key], t)
    THEN [st EXCEPT ![key] = NoEntry]
    ELSE st

\* the map after set(key, record, ttlMs): a full overwrite that restarts the TTL
StoreSet(st, key, status, t) == [st EXCEPT ![key] = [status |-> status, expiresAt |-> t + TtlMs]]

\* a get that answers a failed read with a record in progress; C34_ReadFailureIsNotFound
\* rejects it
GetResultBlocks(readOk, st, key, t) ==
    IF readOk THEN StoreGet(st, key, t) ELSE [status |-> PROCESSING, expiresAt |-> t + TtlMs]

\* what store.get(key) resolves to: RedisIdempotencyStore.get catches a failed read, logs
\* it and returns null
GetResult(readOk, st, key, t) == IF readOk THEN StoreGet(st, key, t) ELSE NoEntry

\* the outcomes of a read / write: only the Redis store has reads and writes that fail
ReadResults(kind, canFail) == IF kind = "redis" /\ canFail THEN {TRUE, FALSE} ELSE {TRUE}
WriteResults(kind, canFail) == IF kind = "redis" /\ canFail THEN {TRUE, FALSE} ELSE {TRUE}

(***************************************************************************)
(* IdempotencyService predicates                                           *)
(***************************************************************************)
\* an isProcessed that never answers true; C4_CompletedIsSkipped rejects it
isProcessedNever(status) == FALSE

isProcessed(status) == status = COMPLETED

\* an isProcessing that never answers true; C7_ProcessingIsLeftAlone rejects it
isProcessingStatusNever(status) == FALSE

isProcessingStatus(status) == status = PROCESSING

(***************************************************************************)
(* CircuitBreaker.  A breaker is the record of its fields: state,          *)
(* failureCount, successCount, lastFailureTime and config.                 *)
(***************************************************************************)
\* the config PimcoreService.onModuleInit passes, over DEFAULT_CONFIG
PimcoreConfig ==
    [failureThreshold |-> FailureThreshold,
     successThreshold |-> SuccessThreshold,
     resetTimeout |-> ResetTimeout]

\* new CircuitBreaker(serviceName, config)
NewBreaker(config) ==
    [state |-> CLOSED, failureCount |-> 0, successCount |-> 0, lastFailureTime |-> NoTime,
     config |-> config]

\* a transition that leaves the counters alone; C18_ClosesAtThreshold rejects it
transitionToKeepsCounts(cb, newState) == [cb EXCEPT !.state = newState]

transitionTo(cb, newState) ==
    IF newState = CLOSED
    THEN [cb EXCEPT !.state = newState, !.failureCount = 0, !.successCount = 0]
    ELSE IF newState = HALF_OPEN
    THEN [cb EXCEPT !.state = newState, !.successCount = 0]
    ELSE [cb EXCEPT !.state = newState]

\* a reset timeout that is over at once; C24_OpenAfterThreshold rejects it
shouldAttemptResetAtOnce(cb, t) == TRUE

shouldAttemptReset(cb, t) ==
    \/ cb.lastFailureTime = NoTime
    \/ t - cb.lastFailureTime >= cb.config.resetTimeout

\* an isOpen that always answers false; C15_OpenRejects rejects it
isOpenNever(cb, t) == FALSE

\* the value of the isOpen getter
isOpen(cb, t) == cb.state = OPEN /\ ~shouldAttemptReset(cb, t)

\* an isOpen getter that changes nothing; C16_LazyHalfOpen rejects it
afterIsOpenStays(cb, t) == cb

\* the breaker after the isOpen getter ran
afterIsOpen(cb, t) ==
    IF cb.state = OPEN /\ shouldAttemptReset(cb, t) THEN transitionTo(cb, HALF_OPEN) ELSE cb

\* an onSuccess that counts the success in every state; C38_CountersInRange rejects it
onSuccessCountsAlways(cb) ==
    LET c2 == [cb EXCEPT !.failureCount = 0, !.successCount = cb.successCount + 1] IN
    IF c2.state = HALF_OPEN /\ c2.successCount >= cb.config.successThreshold
    THEN transitionTo(c2, CLOSED) ELSE c2

\* an onSuccess that records nothing; C14_OpensAtThreshold rejects it
onSuccessForgets(cb) == cb

onSuccess(cb) ==
    LET c1 == [cb EXCEPT !.failureCount = 0] IN
    IF c1.state = HALF_OPEN
    THEN LET c2 == [c1 EXCEPT !.successCount = c1.successCount + 1] IN
         IF c2.successCount >= cb.config.successThreshold THEN transitionTo(c2, CLOSED) ELSE c2
    ELSE c1

\* an onFailure that opens by the failure count alone; C19_HalfOpenFailureOpens
\* rejects it
onFailureByCount(cb, t) ==
    LET c1 == [cb EXCEPT !.failureCount = cb.failureCount + 1,
                         !.lastFailureTime = t,
                         !.successCount = 0] IN
    IF c1.failureCount >= cb.config.failureThreshold THEN [c1 EXCEPT !.state = OPEN] ELSE c1

onFailure(cb, t) ==
    LET c1 == [cb EXCEPT !.failureCount = cb.failureCount + 1,
                         !.lastFailureTime = t,
                         !.successCount = 0] IN
    IF c1.state = HALF_OPEN THEN transitionTo(c1, OPEN)
    ELSE IF c1.failureCount >= cb.config.failureThreshold THEN transitionTo(c1, OPEN)
    ELSE c1

\* an execute placed inside the retry loop, which records a failure as soon as one
\* attempt failed; C5_FailFailSucceed rejects it
afterExecutePerAttempt(cb, r, t) ==
    IF r.ok /\ r.invocations = 1 THEN onSuccess(cb) ELSE onFailure(cb, t)

\* execute after withTimeout settled: r is what the wrapped operation came to
afterExecute(cb, r, t) == IF r.ok THEN onSuccess(cb) ELSE onFailure(cb, t)

(***************************************************************************)
(* retryWithBackoff: the loop over attempt = 0 .. maxAttempts - 1.         *)
(* outcomes[attempt + 1] tells whether that invocation of the operation    *)
(* succeeds.  The result: whether a value is returned (ok) or lastError is *)
(* thrown, the number of invocations made and of sleeps taken.             *)
(***************************************************************************)
RECURSIVE retryLoop(_, _, _)
retryLoop(outcomes, attempt, sleeps) ==
    IF attempt < MaxAttempts
    THEN IF outcomes[attempt + 1]
         THEN [ok |-> TRUE, invocations |-> attempt + 1, sleeps |-> sleeps]
         ELSE retryLoop(outcomes, attempt + 1,
                        IF attempt < MaxAttempts - 1 THEN sleeps + 1 ELSE sleeps)
    ELSE [ok |-> FALSE, invocations |-> attempt, sleeps |-> sleeps]

retryWithBackoff(outcomes) == retryLoop(outcomes, 0, 0)

(***************************************************************************)
(* Bookkeeping of the calls made directly on the store, the manager, the   *)
(* breaker and generateKey (the specifications SpecStore, SpecBreaker and  *)
(* SpecKey below); the consumer makes no such call.                        *)
(***************************************************************************)
RELEASED == "RELEASED"

\* a key no caller has written yet
NoWrite == [status |-> NOT_FOUND, at |-> 0]

\* turn alternates from one call to the next, so that two calls in a row differ
NoCall ==
    [op |-> "none", key |-> "none", result |-> "none", failed |-> FALSE, at |-> 0, prior |-> NoWrite,
     turn |-> 0]

\* the execute calls made on the breaker directly
Calls == 1..NCalls

\* an execute call not made yet
IdleCall ==
    [pc |-> "idle",           \* "idle" | "running" | "orphaned" (timed out, operation still running) | "done"
     promise |-> "none",      \* withTimeout's promise: "none" | "pending" | "resolved" | "rejected"
     admittedIn |-> "none",   \* the breaker's state when the operation was invoked, while it runs
     invoked |-> 0,           \* invocations of the operation
     attempts |-> 0,          \* invocations of doUpsertProduct by the operation's retry loop
     recorded |-> 0,          \* outcomes execute recorded for the call
     result |-> "none"]       \* what execute gave its caller: "value" | "error" | "timeout" | "open"

\* the failures recorded in a row, the successes recorded in a row while HALF_OPEN, and
\* the state the breaker was in when the last outcome was recorded; reads alternates
\* from one read of isOpen to the next
NoHist == [failures |-> 0, successes |-> 0, lastIn |-> "none", reads |-> 0]

\* the value of a bookkeeping variable under a specification that makes no such call
Unused == <<>>

\* the consumer calls none of them directly
UnitIdle ==
    /\ lastWrite = Unused
    /\ lastCall = Unused
    /\ calls = Unused
    /\ hist = Unused
    /\ keyProbe = Unused
    /\ registry = Unused
    /\ retry = Unused
    /\ polls = Unused
    /\ sync = Unused

(***************************************************************************)
(* Initial state: the services as constructed, the messages on the queue   *)
(***************************************************************************)
Constructed ==
    /\ now = 1
    /\ storeKind \in {"memory", "redis"}
    /\ store = [k \in Keys |-> NoEntry]
    /\ body \in {f \in [Msgs -> Bodies] : \A m \in Msgs \ {1} : f[m] = WellFormed}
    /\ queue = [m \in Msgs |-> "visible"]
    /\ receiveCount = [m \in Msgs |-> 0]
    /\ isProcessing = FALSE
    /\ shouldStop = FALSE
    /\ cycle = "idle"
    /\ metrics = [processed |-> 0, skipped |-> 0, failed |-> 0]
    /\ pc = [m \in Msgs |-> "idle"]
    /\ lockStatus = [m \in Msgs |-> "none"]
    /\ invocations = [m \in Msgs |-> 0]
    /\ ackIssued = [m \in Msgs |-> FALSE]
    /\ outcome = [m \in Msgs |-> "none"]
    /\ cause = [m \in Msgs |-> "none"]
    /\ upserts = [k \in Keys |-> 0]
    /\ faultCount = 0

Init ==
    /\ Constructed
    /\ breaker = NewBreaker(PimcoreConfig)
    /\ UnitIdle

KeyOf(m) == generateKey(body[m].productId, body[m].eventId)

\* the body passes JSON.parse and the eventDetail?.product check
Reads(m) == body[m].parses /\ body[m].hasProduct

RECURSIVE SumOver(_, _)
SumOver(f, S) == IF S = {} THEN 0 ELSE LET x == CHOOSE y \in S : TRUE IN f[x] + SumOver(f, S \ {x})

\* receives so far, over all messages
Deliveries == SumOver(receiveCount, Msgs)

(***************************************************************************)
(* The clock.  Time passes while a dispatch awaits; a block that reads     *)
(* Date.now() finds it d later than the block that read it before.         *)
(***************************************************************************)
Elapse == 0..(MaxTime - now)

\* the model injects at most MaxFaults failures of collaborators
CanFail == faultCount < MaxFaults

Count(failed) == IF failed THEN faultCount + 1 ELSE faultCount

(***************************************************************************)
(* The queue: a received message that was not deleted becomes visible      *)
(* again when its visibility timeout runs out.  Only receiveMessages       *)
(* observes this, so the step is taken between two poll cycles.            *)
(***************************************************************************)
Redeliver(m) ==
    /\ cycle = "idle"
    /\ queue[m] = "inflight"
    /\ pc[m] = "idle"
    /\ queue' = [queue EXCEPT ![m] = "visible"]
    /\ UNCHANGED <<unitVars, timeVars, storeVars, body, receiveCount, pollVars, metrics, taskVars, breaker, downVars>>

(***************************************************************************)
(* SqsConsumerService.pollMessages                                         *)
(***************************************************************************)
PollStart ==
    /\ ~(isProcessing \/ shouldStop)
    /\ cycle = "idle"
    /\ isProcessing' = TRUE
    /\ cycle' = "receiving"
    /\ UNCHANGED <<unitVars, timeVars, storeVars, queueVars, shouldStop, metrics, taskVars, breaker, downVars>>

\* receiveMessages returns a batch; processMessageBatch maps every message to a dispatch
Receive(batch) ==
    /\ cycle = "receiving"
    /\ batch # {}
    /\ Cardinality(batch) <= MaxMessages
    /\ Deliveries + Cardinality(batch) <= MaxDeliveries
    /\ \A m \in batch : queue[m] = "visible"
    /\ queue' = [m \in Msgs |-> IF m \in batch THEN "inflight" ELSE queue[m]]
    /\ receiveCount' = [m \in Msgs |-> IF m \in batch THEN receiveCount[m] + 1 ELSE receiveCount[m]]
    /\ pc' = [m \in Msgs |-> IF m \in batch THEN "start" ELSE pc[m]]
    /\ cycle' = "dispatching"
    /\ UNCHANGED <<unitVars, timeVars, storeVars, body, isProcessing, shouldStop, metrics,
                   lockStatus, invocations, ackIssued, outcome, cause, breaker, downVars>>

\* a finally block that leaves the guard as it is; C33_PollNeverRejects rejects it
PollFinallyKeepsGuard ==
    /\ isProcessing' = isProcessing
    /\ cycle' = "idle"

\* the finally block of pollMessages
PollFinally ==
    /\ isProcessing' = FALSE
    /\ cycle' = "idle"

\* receiveMessages returns no message
ReceiveEmpty ==
    /\ cycle = "receiving"
    /\ PollFinally
    /\ UNCHANGED <<unitVars, timeVars, storeVars, queueVars, shouldStop, metrics, taskVars, breaker, downVars>>

\* receiveMessages throws; pollMessages catches and logs
ReceiveFail ==
    /\ cycle = "receiving"
    /\ PollFinally
    /\ UNCHANGED <<unitVars, timeVars, storeVars, queueVars, shouldStop, metrics, taskVars, breaker, downVars>>

\* a batch awaited with Promise.all, which settles as soon as one dispatch rejects;
\* C32_BatchIsSettled rejects it
PollEndOnRejection ==
    /\ cycle = "dispatching"
    /\ \/ \A m \in Msgs : pc[m] \in {"idle", "done"}
       \/ \E m \in Msgs : outcome[m] = "rejected"
    /\ PollFinally
    /\ pc' = [m \in Msgs |-> "idle"]
    /\ lockStatus' = [m \in Msgs |-> "none"]
    /\ invocations' = [m \in Msgs |-> 0]
    /\ ackIssued' = [m \in Msgs |-> FALSE]
    /\ outcome' = [m \in Msgs |-> "none"]
    /\ cause' = [m \in Msgs |-> "none"]
    /\ UNCHANGED <<unitVars, timeVars, storeVars, queueVars, shouldStop, metrics, breaker, downVars>>

\* Promise.allSettled has settled: every dispatch of the batch is done
PollEnd ==
    /\ cycle = "dispatching"
    /\ \A m \in Msgs : pc[m] \in {"idle", "done"}
    /\ PollFinally
    /\ pc' = [m \in Msgs |-> "idle"]
    /\ lockStatus' = [m \in Msgs |-> "none"]
    /\ invocations' = [m \in Msgs |-> 0]
    /\ ackIssued' = [m \in Msgs |-> FALSE]
    /\ outcome' = [m \in Msgs |-> "none"]
    /\ cause' = [m \in Msgs |-> "none"]
    /\ UNCHANGED <<unitVars, timeVars, storeVars, queueVars, shouldStop, metrics, breaker, downVars>>

(***************************************************************************)
(* SqsConsumerService.processMessageWithRetry, one dispatch per message    *)
(***************************************************************************)
\* a counter that steps by two; C6_FailureIsMarkedAndRaised rejects it
IncTwice(field) == [metrics EXCEPT ![field] = metrics[field] + 2]

Inc(field) == [metrics EXCEPT ![field] = metrics[field] + 1]

\* the first failure of a dispatch is kept
Blame(m, f) == [cause EXCEPT ![m] = IF cause[m] = "none" THEN f ELSE cause[m]]

\* which way the first block of a dispatch goes, given what store.get returned
Branch(b, existing) ==
    IF ~b.parses THEN "parseError"
    ELSE IF ~b.hasProduct THEN "invalid"
    ELSE IF existing.status = NOT_FOUND THEN "absent"
    ELSE IF isProcessed(existing.status) THEN "duplicate"
    ELSE IF isProcessingStatus(existing.status) THEN "inFlight"
    ELSE "proceed"

\* processProduct -> upsertProduct -> CircuitBreaker.execute: the isOpen test; then
\* withTimeout starts retryWithBackoff.  The position, failure cause and breaker after
\* it, as a record.
ProcessProduct(m, t) ==
    IF isOpen(breaker, t)
    THEN [pc |-> "markFailed", cause |-> "breakerOpen", breaker |-> afterIsOpen(breaker, t)]
    ELSE [pc |-> "upsert", cause |-> cause[m], breaker |-> afterIsOpen(breaker, t)]

\* JSON.parse, the format check, checkAndLock's store.get and the test of the status
\* found; a record found FAILED goes on to processProduct
TaskStart(m) ==
    /\ pc[m] = "start"
    /\ \E readOk \in ReadResults(storeKind, CanFail), d \in Elapse :
         LET b == body[m]
             reads == Reads(m)
             t == now + d
             existing == IF reads THEN GetResult(readOk, store, KeyOf(m), t) ELSE NoEntry
             branch == Branch(b, existing)
             go == ProcessProduct(m, t)
         IN  /\ reads \/ (readOk /\ d = 0)
             /\ now' = t
             /\ faultCount' = Count(~readOk)
             /\ store' = IF reads /\ readOk THEN StoreAfterGet(storeKind, store, KeyOf(m), t) ELSE store
             /\ lockStatus' = [lockStatus EXCEPT ![m] =
                                 IF branch \in {"duplicate", "inFlight", "proceed"}
                                 THEN existing.status ELSE lockStatus[m]]
             /\ pc' = [pc EXCEPT ![m] =
                         CASE branch = "parseError" -> "done"
                           [] branch = "invalid" -> "ackInvalid"
                           [] branch = "absent" -> "lockSet"
                           [] branch = "duplicate" -> "ackDuplicate"
                           [] branch = "inFlight" -> "done"
                           [] OTHER -> go.pc]
             /\ outcome' = [outcome EXCEPT ![m] =
                              CASE branch = "parseError" -> "rejected"
                                [] branch = "inFlight" -> "resolved"
                                [] OTHER -> outcome[m]]
             /\ cause' = [cause EXCEPT ![m] =
                            CASE branch = "parseError" -> "parse"
                              [] branch = "proceed" -> go.cause
                              [] ~readOk -> "storeRead"
                              [] OTHER -> cause[m]]
             /\ ackIssued' = [ackIssued EXCEPT ![m] = branch \in {"invalid", "duplicate"}]
             /\ metrics' = IF branch = "duplicate" THEN Inc("skipped") ELSE metrics
             /\ breaker' = IF branch = "proceed" THEN go.breaker ELSE breaker
    /\ UNCHANGED <<unitVars, storeKind, queueVars, pollVars, invocations, upserts>>

\* checkAndLock's store.set of the PROCESSING record after store.get returned null; on
\* NOT_FOUND the dispatch goes on to processProduct, a rejected write lands in the
\* outer catch
CheckAndLockSet(m) ==
    /\ pc[m] = "lockSet"
    /\ \E writeOk \in WriteResults(storeKind, CanFail), d \in Elapse :
         LET go == ProcessProduct(m, now + d) IN
         /\ now' = now + d
         /\ faultCount' = Count(~writeOk)
         /\ IF writeOk
            THEN /\ store' = StoreSet(store, KeyOf(m), PROCESSING, now + d)
                 /\ lockStatus' = [lockStatus EXCEPT ![m] = NOT_FOUND]
                 /\ pc' = [pc EXCEPT ![m] = go.pc]
                 /\ cause' = [cause EXCEPT ![m] = go.cause]
                 /\ breaker' = go.breaker
                 /\ UNCHANGED outcome
            ELSE /\ pc' = [pc EXCEPT ![m] = "done"]
                 /\ outcome' = [outcome EXCEPT ![m] = "rejected"]
                 /\ cause' = Blame(m, "storeWrite")
                 /\ UNCHANGED <<store, lockStatus, breaker>>
    /\ UNCHANGED <<unitVars, storeKind, queueVars, pollVars, metrics, invocations, ackIssued, upserts>>

\* retryWithBackoff ends.  outcomes[i] tells whether the i-th invocation of
\* doUpsertProduct succeeds.  On a result execute records the success, processProduct
\* emits the event and returns; on lastError execute records one failure and rethrows
UpsertEnds(m) ==
    /\ pc[m] = "upsert"
    /\ \E outcomes \in [1..MaxAttempts -> BOOLEAN] :
         LET r == retryWithBackoff(outcomes) IN
         /\ invocations' = [invocations EXCEPT ![m] = r.invocations]
         /\ IF r.ok
            THEN /\ upserts' = [upserts EXCEPT ![KeyOf(m)] = upserts[KeyOf(m)] + 1]
                 /\ breaker' = afterExecute(breaker, r, now)
                 /\ pc' = [pc EXCEPT ![m] = "markCompleted"]
                 /\ UNCHANGED <<now, cause>>
            ELSE /\ \E d \in Elapse :
                      /\ now' = now + d
                      /\ breaker' = afterExecute(breaker, r, now + d)
                 /\ pc' = [pc EXCEPT ![m] = "markFailed"]
                 /\ cause' = Blame(m, "exhausted")
                 /\ UNCHANGED upserts
    /\ UNCHANGED <<unitVars, storeVars, queueVars, pollVars, metrics, lockStatus, ackIssued, outcome, faultCount>>

\* withTimeout's timer fires first: execute records a failure and rejects.  The
\* operation it started keeps running; whether one of its remaining attempts still
\* completes the upsert is chosen here (late), and nothing else observes that completion
Timeout(m) ==
    /\ pc[m] = "upsert"
    /\ CanFail
    /\ faultCount' = faultCount + 1
    /\ \E d \in Elapse :
         /\ now' = now + d
         /\ breaker' = onFailure(breaker, now + d)
    /\ \E late \in BOOLEAN :
         upserts' = [upserts EXCEPT ![KeyOf(m)] = IF late THEN upserts[KeyOf(m)] + 1 ELSE upserts[KeyOf(m)]]
    /\ pc' = [pc EXCEPT ![m] = "markFailed"]
    /\ cause' = Blame(m, "timeout")
    /\ UNCHANGED <<unitVars, storeVars, queueVars, pollVars, metrics, lockStatus, invocations, ackIssued, outcome>>

\* markCompleted's store.set, then deleteMessage is called; a rejected write lands in
\* the inner catch
\* a success path that issues the delete without the COMPLETED write;
\* C37_AckOnlyWhenCompleted rejects it
DeleteBeforeMarkCompleted(m) ==
    /\ pc[m] = "markCompleted"
    /\ pc' = [pc EXCEPT ![m] = "ack"]
    /\ ackIssued' = [ackIssued EXCEPT ![m] = TRUE]
    /\ UNCHANGED <<unitVars, timeVars, storeVars, queueVars, pollVars, metrics, lockStatus, invocations,
                   outcome, cause, breaker, downVars>>

MarkCompleted(m) ==
    /\ pc[m] = "markCompleted"
    /\ \E writeOk \in WriteResults(storeKind, CanFail), d \in Elapse :
         /\ now' = now + d
         /\ faultCount' = Count(~writeOk)
         /\ IF writeOk
            THEN /\ store' = StoreSet(store, KeyOf(m), COMPLETED, now + d)
                 /\ pc' = [pc EXCEPT ![m] = "ack"]
                 /\ ackIssued' = [ackIssued EXCEPT ![m] = TRUE]
                 /\ UNCHANGED cause
            ELSE /\ pc' = [pc EXCEPT ![m] = "markFailed"]
                 /\ cause' = Blame(m, "storeWrite")
                 /\ UNCHANGED <<store, ackIssued>>
    /\ UNCHANGED <<unitVars, storeKind, queueVars, pollVars, metrics, lockStatus, invocations, outcome, breaker, upserts>>

\* SqsService.deleteMessage succeeds (within its 3 attempts); on the success path
\* processed++ follows
DeleteOk(m) ==
    /\ pc[m] \in {"ack", "ackInvalid", "ackDuplicate"}
    /\ queue' = [queue EXCEPT ![m] = "deleted"]
    /\ metrics' = IF pc[m] = "ack" THEN Inc("processed") ELSE metrics
    /\ pc' = [pc EXCEPT ![m] = "done"]
    /\ outcome' = [outcome EXCEPT ![m] = "resolved"]
    /\ UNCHANGED <<unitVars, timeVars, storeVars, body, receiveCount, pollVars, lockStatus, invocations,
                   ackIssued, cause, breaker, downVars>>

\* SqsService.deleteMessage rejects: after markCompleted the inner catch takes it,
\* on the two early paths the outer catch
DeleteFail(m) ==
    /\ pc[m] \in {"ack", "ackInvalid", "ackDuplicate"}
    /\ CanFail
    /\ faultCount' = faultCount + 1
    /\ cause' = Blame(m, "ack")
    /\ IF pc[m] = "ack"
       THEN /\ pc' = [pc EXCEPT ![m] = "markFailed"]
            /\ UNCHANGED outcome
       ELSE /\ pc' = [pc EXCEPT ![m] = "done"]
            /\ outcome' = [outcome EXCEPT ![m] = "rejected"]
    /\ UNCHANGED <<unitVars, timeVars, storeVars, queueVars, pollVars, metrics, lockStatus, invocations,
                   ackIssued, breaker, upserts>>

\* the inner catch: markFailed's store.set, failed++, rethrow (wrapped by the outer
\* catch); when the write rejects, failed++ is not reached
MarkFailed(m) ==
    /\ pc[m] = "markFailed"
    /\ \E writeOk \in WriteResults(storeKind, CanFail), d \in Elapse :
         /\ now' = now + d
         /\ faultCount' = Count(~writeOk)
         /\ IF writeOk
            THEN /\ store' = StoreSet(store, KeyOf(m), FAILED, now + d)
                 /\ metrics' = Inc("failed")
            ELSE UNCHANGED <<store, metrics>>
    /\ pc' = [pc EXCEPT ![m] = "done"]
    /\ outcome' = [outcome EXCEPT ![m] = "rejected"]
    /\ UNCHANGED <<unitVars, storeKind, queueVars, pollVars, lockStatus, invocations, ackIssued, cause, breaker, upserts>>

Next ==
    \/ \E m \in Msgs : Redeliver(m)
    \/ PollStart
    \/ \E batch \in SUBSET Msgs : Receive(batch)
    \/ ReceiveEmpty
    \/ ReceiveFail
    \/ PollEnd
    \/ \E m \in Msgs : TaskStart(m)
    \/ \E m \in Msgs : CheckAndLockSet(m)
    \/ \E m \in Msgs : UpsertEnds(m)
    \/ \E m \in Msgs : Timeout(m)
    \/ \E m \in Msgs : MarkCompleted(m)
    \/ \E m \in Msgs : DeleteOk(m)
    \/ \E m \in Msgs : DeleteFail(m)
    \/ \E m \in Msgs : MarkFailed(m)

Spec == Init /\ [][Next]_vars

(***************************************************************************)
(* The process ends while attempts are in flight and is started again.     *)
(* onModuleDestroy sets shouldStop and logs the metrics: it awaits no      *)
(* dispatch and releases no key.  The new process has its fields as        *)
(* constructed; a Redis store keeps its records, the in-memory store is    *)
(* empty again; the messages in flight come back when their visibility     *)
(* timeout runs out.                                                       *)
(***************************************************************************)
\* the dispatches between checkAndLock's PROCESSING write and their status write
Attempting == {m \in Msgs : pc[m] \in {"upsert", "markCompleted", "markFailed"}}

\* the keys with an attempt in flight
InFlight == {KeyOf(m) : m \in {x \in Msgs : Reads(x) /\ pc[x] \in {"lockSet", "upsert", "markCompleted", "ack", "markFailed"}}}

\* the store the next process finds, had onModuleDestroy released the keys in flight;
\* C35_StuckUntilTtl rejects it
StoreAfterExitReleased(kind, st, keys) ==
    IF kind = "memory" THEN [k \in Keys |-> NoEntry]
    ELSE [k \in Keys |-> IF k \in keys THEN NoEntry ELSE st[k]]

\* the store the next process finds: onModuleDestroy touches no record
StoreAfterExit(kind, st, keys) == IF kind = "memory" THEN [k \in Keys |-> NoEntry] ELSE st

Restart ==
    /\ Attempting # {}
    /\ store' = StoreAfterExit(storeKind, store, InFlight)
    /\ isProcessing' = FALSE
    /\ shouldStop' = FALSE
    /\ cycle' = "idle"
    /\ metrics' = [processed |-> 0, skipped |-> 0, failed |-> 0]
    /\ pc' = [m \in Msgs |-> "idle"]
    /\ lockStatus' = [m \in Msgs |-> "none"]
    /\ invocations' = [m \in Msgs |-> 0]
    /\ ackIssued' = [m \in Msgs |-> FALSE]
    /\ outcome' = [m \in Msgs |-> "none"]
    /\ cause' = [m \in Msgs |-> "none"]
    /\ breaker' = NewBreaker(PimcoreConfig)
    /\ UNCHANGED <<unitVars, timeVars, storeKind, queueVars, downVars>>

NextRestart == Next \/ Restart

\* two well-formed messages of one key
InitRestart ==
    /\ Init
    /\ body = [m \in Msgs |-> WellFormed]

SpecRestart == InitRestart /\ [][NextRestart]_vars

(***************************************************************************)
(* processProduct and MedusaSyncListener.  After upsertProduct has         *)
(* returned, processProduct builds the payload of product.synced.pimcore   *)
(* (pimcoreResult.id, eventDetail.metadata.batchId) and emits it; emit     *)
(* runs the listener up to its first await and returns.  The format check  *)
(* of the consumer looks at detail.product only: a detail without metadata *)
(* passes it, and reading metadata.batchId of it throws a TypeError.       *)
(***************************************************************************)
NoSync ==
    [hasMetadata |-> [m \in Msgs |-> TRUE],   \* message -> its detail carries metadata
     returned |-> [m \in Msgs |-> 0],         \* message -> upsertProduct calls that resolved
     listeners |-> [m \in Msgs |-> <<>>]]     \* message -> the listener runs its events started:
                                              \*   "upserting" | "publishing" | "synced" | "failed"

\* retryWithBackoff ends.  On a result execute records the success and processProduct
\* goes on to the emit: with metadata the event is emitted, the listener has called
\* medusaService.upsertProduct and processProduct returns; without, the TypeError lands
\* in the inner catch of the dispatch.  On lastError execute records one failure and
\* rethrows, and nothing is emitted
ProcessProductReturns(m) ==
    /\ pc[m] = "upsert"
    /\ \E outcomes \in [1..MaxAttempts -> BOOLEAN] :
         LET r == retryWithBackoff(outcomes) IN
         /\ invocations' = [invocations EXCEPT ![m] = r.invocations]
         /\ IF r.ok
            THEN /\ upserts' = [upserts EXCEPT ![KeyOf(m)] = upserts[KeyOf(m)] + 1]
                 /\ breaker' = afterExecute(breaker, r, now)
                 /\ UNCHANGED now
                 /\ IF sync.hasMetadata[m]
                    THEN /\ sync' = [sync EXCEPT !.returned[m] = @ + 1,
                                                 !.listeners[m] = Append(@, "upserting")]
                         /\ pc' = [pc EXCEPT ![m] = "markCompleted"]
                         /\ UNCHANGED cause
                    ELSE /\ sync' = [sync EXCEPT !.returned[m] = @ + 1]
                         /\ pc' = [pc EXCEPT ![m] = "markFailed"]
                         /\ cause' = Blame(m, "emit")
            ELSE /\ \E d \in Elapse :
                      /\ now' = now + d
                      /\ breaker' = afterExecute(breaker, r, now + d)
                 /\ pc' = [pc EXCEPT ![m] = "markFailed"]
                 /\ cause' = Blame(m, "exhausted")
                 /\ UNCHANGED <<upserts, sync>>
    /\ UNCHANGED <<lastWrite, lastCall, calls, hist, keyProbe, registry, retry, polls, storeVars, queueVars,
                   pollVars, metrics, lockStatus, ackIssued, outcome, faultCount>>

\* medusaService.upsertProduct settles in the listener: on a result publishProduct is
\* called, an error is caught and logged
MedusaUpsertSettles(m, i, ok) ==
    /\ i \in DOMAIN sync.listeners[m]
    /\ sync.listeners[m][i] = "upserting"
    /\ sync' = [sync EXCEPT !.listeners[m][i] = IF ok THEN "publishing" ELSE "failed"]
    /\ UNCHANGED <<timeVars, storeVars, queueVars, pollVars, metrics, taskVars, breaker, downVars,
                   lastWrite, lastCall, calls, hist, keyProbe, registry, retry, polls>>

\* medusaService.publishProduct settles in the listener: an error is caught and logged
MedusaPublishSettles(m, i, ok) ==
    /\ i \in DOMAIN sync.listeners[m]
    /\ sync.listeners[m][i] = "publishing"
    /\ sync' = [sync EXCEPT !.listeners[m][i] = IF ok THEN "synced" ELSE "failed"]
    /\ UNCHANGED <<timeVars, storeVars, queueVars, pollVars, metrics, taskVars, breaker, downVars,
                   lastWrite, lastCall, calls, hist, keyProbe, registry, retry, polls>>

\* two messages of one key, each with or without metadata
InitSync ==
    /\ Constructed
    /\ body = [m \in Msgs |-> WellFormed]
    /\ breaker = NewBreaker(PimcoreConfig)
    /\ lastWrite = Unused
    /\ lastCall = Unused
    /\ calls = Unused
    /\ hist = Unused
    /\ keyProbe = Unused
    /\ registry = Unused
    /\ retry = Unused
    /\ polls = Unused
    /\ sync \in {[NoSync EXCEPT !.hasMetadata = h] : h \in [Msgs -> BOOLEAN]}

NextSync ==
    \/ \E m \in Msgs : Redeliver(m)
    \/ PollStart
    \/ \E batch \in SUBSET Msgs : Receive(batch)
    \/ ReceiveEmpty
    \/ ReceiveFail
    \/ PollEnd
    \/ \E m \in Msgs : TaskStart(m)
    \/ \E m \in Msgs : CheckAndLockSet(m)
    \/ \E m \in Msgs : ProcessProductReturns(m)
    \/ \E m \in Msgs : Timeout(m)
    \/ \E m \in Msgs : MarkCompleted(m)
    \/ \E m \in Msgs : DeleteOk(m)
    \/ \E m \in Msgs : DeleteFail(m)
    \/ \E m \in Msgs : MarkFailed(m)
    \/ \E m \in Msgs, i \in 1..MaxDeliveries, ok \in BOOLEAN : MedusaUpsertSettles(m, i, ok)
    \/ \E m \in Msgs, i \in 1..MaxDeliveries, ok \in BOOLEAN : MedusaPublishSettles(m, i, ok)

SpecSync == InitSync /\ [][NextSync]_vars

(***************************************************************************)
(* The idempotency store and manager, called directly: get, set (as        *)
(* markCompleted and markFailed call it), release and checkAndLock, one    *)
(* call at a time, at any time.                                            *)
(***************************************************************************)
consumerVars == <<queueVars, pollVars, metrics, taskVars, upserts>>

\* the keys of the direct calls
UnitKeys == {generateKey("p1", "e1"), generateKey("p1", Undefined)}

\* a delete that spares a record whose work is over; C12_Release rejects it
StoreDeleteUnfinished(st, key) ==
    IF st[key].status = PROCESSING THEN [st EXCEPT ![key] = NoEntry] ELSE st

\* the map after delete(key)
StoreDelete(st, key) == [st EXCEPT ![key] = NoEntry]

\* time passes
Tick ==
    /\ now < MaxTime
    /\ now' = now + 1
    /\ UNCHANGED <<storeVars, queueVars, pollVars, metrics, taskVars, breaker, downVars, unitVars>>

\* store.get(key)
Get(k) ==
    /\ \E readOk \in ReadResults(storeKind, CanFail) :
         /\ store' = IF readOk THEN StoreAfterGet(storeKind, store, k, now) ELSE store
         /\ faultCount' = Count(~readOk)
         /\ lastCall' = [op |-> "get", key |-> k,
                         result |-> IF readOk THEN StoreGet(store, k, now).status ELSE NOT_FOUND,
                         failed |-> ~readOk, at |-> now, prior |-> lastWrite[k],
                         turn |-> 1 - lastCall.turn]
    /\ UNCHANGED <<now, storeKind, consumerVars, breaker, lastWrite, calls, hist, probeVars>>

\* store.set(key, record, ttlMs), the record having the given status
Set(k, status) ==
    /\ \E writeOk \in WriteResults(storeKind, CanFail) :
         /\ store' = IF writeOk THEN StoreSet(store, k, status, now) ELSE store
         /\ faultCount' = Count(~writeOk)
         /\ lastWrite' = IF writeOk THEN [lastWrite EXCEPT ![k] = [status |-> status, at |-> now]]
                         ELSE lastWrite
         /\ lastCall' = [op |-> "set", key |-> k,
                         result |-> IF writeOk THEN "resolved" ELSE "rejected",
                         failed |-> ~writeOk, at |-> now, prior |-> lastWrite[k],
                         turn |-> 1 - lastCall.turn]
    /\ UNCHANGED <<now, storeKind, consumerVars, breaker, calls, hist, probeVars>>

\* IdempotencyManager.release: store.delete(key); the Redis store logs a failed delete
\* and resolves
Release(k) ==
    /\ \E deleteOk \in WriteResults(storeKind, CanFail) :
         /\ store' = IF deleteOk THEN StoreDelete(store, k) ELSE store
         /\ faultCount' = Count(~deleteOk)
         /\ lastWrite' = IF deleteOk THEN [lastWrite EXCEPT ![k] = [status |-> RELEASED, at |-> now]]
                         ELSE lastWrite
         /\ lastCall' = [op |-> "release", key |-> k, result |-> "resolved",
                         failed |-> ~deleteOk, at |-> now, prior |-> lastWrite[k],
                         turn |-> 1 - lastCall.turn]
    /\ UNCHANGED <<now, storeKind, consumerVars, breaker, calls, hist, probeVars>>

\* IdempotencyManager.checkAndLock run alone: store.get, then store.set when get
\* returned null
CheckAndLock(k) ==
    /\ \E readOk \in ReadResults(storeKind, CanFail) :
       \E writeOk \in WriteResults(storeKind, Count(~readOk) < MaxFaults) :
         LET existing == IF readOk THEN StoreGet(store, k, now) ELSE NoEntry
             afterGet == IF readOk THEN StoreAfterGet(storeKind, store, k, now) ELSE store
             writes == existing.status = NOT_FOUND
         IN  /\ writes \/ writeOk
             /\ store' = IF writes /\ writeOk THEN StoreSet(afterGet, k, PROCESSING, now) ELSE afterGet
             /\ faultCount' = Count(~readOk) + (IF writeOk THEN 0 ELSE 1)
             /\ lastWrite' = IF writes /\ writeOk
                             THEN [lastWrite EXCEPT ![k] = [status |-> PROCESSING, at |-> now]]
                             ELSE lastWrite
             /\ lastCall' = [op |-> "checkAndLock", key |-> k,
                             result |-> IF ~writes THEN existing.status
                                        ELSE IF writeOk THEN NOT_FOUND ELSE "rejected",
                             failed |-> ~readOk \/ ~writeOk, at |-> now, prior |-> lastWrite[k],
                         turn |-> 1 - lastCall.turn]
    /\ UNCHANGED <<now, storeKind, consumerVars, breaker, calls, hist, probeVars>>

InitStore ==
    /\ Constructed
    /\ breaker = NewBreaker(PimcoreConfig)
    /\ body = [m \in Msgs |-> WellFormed]
    /\ lastWrite = [k \in Keys |-> NoWrite]
    /\ lastCall = NoCall
    /\ calls = Unused
    /\ hist = Unused
    /\ keyProbe = Unused
    /\ registry = Unused
    /\ retry = Unused
    /\ polls = Unused
    /\ sync = Unused

NextStore ==
    \/ Tick
    \/ \E k \in UnitKeys : Get(k)
    \/ \E k \in UnitKeys, status \in {PROCESSING, COMPLETED, FAILED} : Set(k, status)
    \/ \E k \in UnitKeys : Release(k)
    \/ \E k \in UnitKeys : CheckAndLock(k)

SpecStore == InitStore /\ [][NextStore]_vars

(***************************************************************************)
(* The circuit breaker, called directly: NCalls execute calls that may run *)
(* concurrently, reads of isOpen and reset(), at any time.  The operation  *)
(* of a call succeeds, fails, or outlasts the timeout and completes later. *)
(***************************************************************************)
\* a promise that can be settled over and over; C20_OneOutcomePerCall rejects it
SettleAgain(promise, to) == to

\* resolve / reject of withTimeout's promise: a settled promise stays as it is
Settle(promise, to) == IF promise = "pending" THEN to ELSE promise

\* a reset that leaves the time of the last failure; C21_ResetCloses rejects it
resetKeepsLastFailure(cb) == transitionTo(cb, CLOSED)

\* CircuitBreaker.reset
reset(cb) == [transitionTo(cb, CLOSED) EXCEPT !.lastFailureTime = NoTime]

\* the bookkeeping after execute recorded an outcome, the breaker being in state
\* before
HistOutcome(h, ok, before) ==
    [h EXCEPT !.failures = IF ok THEN 0 ELSE @ + 1,
              !.successes = IF ok /\ before = HALF_OPEN THEN @ + 1 ELSE 0,
              !.lastIn = before]

\* execute(operation): the isOpen test; an admitted call invokes the operation inside
\* withTimeout.  Calls are alike, so they are numbered in the order they are made
Execute(c) ==
    /\ calls[c].pc = "idle"
    /\ \A c2 \in Calls : c2 < c => calls[c2].pc # "idle"
    /\ breaker' = afterIsOpen(breaker, now)
    /\ calls' = [calls EXCEPT ![c] =
                   IF isOpen(breaker, now)
                   THEN [@ EXCEPT !.pc = "done", !.result = "open"]
                   ELSE [@ EXCEPT !.pc = "running", !.promise = "pending",
                                  !.admittedIn = afterIsOpen(breaker, now).state,
                                  !.invoked = @ + 1]]
    /\ UNCHANGED <<now, storeVars, consumerVars, faultCount, lastWrite, lastCall, hist, probeVars>>

\* the operation of a call completes, with a value (ok) or an error: it settles
\* withTimeout's promise, and when that settles the promise execute goes on to onSuccess
\* or onFailure
Complete(c, ok) ==
    /\ calls[c].pc \in {"running", "orphaned"}
    /\ LET settled == Settle(calls[c].promise, IF ok THEN "resolved" ELSE "rejected")
           goesOn == settled # calls[c].promise
       IN  /\ breaker' = IF goesOn
                         THEN afterExecute(breaker, [ok |-> ok, invocations |-> 1, sleeps |-> 0], now)
                         ELSE breaker
           /\ hist' = IF goesOn THEN HistOutcome(hist, ok, breaker.state) ELSE hist
           /\ calls' = [calls EXCEPT ![c] =
                          IF goesOn
                          THEN [@ EXCEPT !.pc = "done", !.promise = settled, !.recorded = @ + 1,
                                         !.result = IF ok THEN "value" ELSE "error",
                                         !.admittedIn = "none"]
                          ELSE [@ EXCEPT !.pc = "done", !.admittedIn = "none"]]
    /\ UNCHANGED <<now, storeVars, consumerVars, faultCount, lastWrite, lastCall, probeVars>>

\* withTimeout's timer fires while the operation is still running: the promise is
\* rejected and execute records the failure and rethrows
TimerFires(c) ==
    /\ calls[c].pc = "running"
    /\ LET settled == Settle(calls[c].promise, "rejected")
           goesOn == settled # calls[c].promise
       IN  /\ breaker' = IF goesOn
                         THEN afterExecute(breaker, [ok |-> FALSE, invocations |-> 1, sleeps |-> 0], now)
                         ELSE breaker
           /\ hist' = IF goesOn THEN HistOutcome(hist, FALSE, breaker.state) ELSE hist
           /\ calls' = [calls EXCEPT ![c] =
                          IF goesOn
                          THEN [@ EXCEPT !.pc = "orphaned", !.promise = settled, !.recorded = @ + 1,
                                         !.result = "timeout"]
                          ELSE [@ EXCEPT !.pc = "orphaned"]]
    /\ UNCHANGED <<now, storeVars, consumerVars, faultCount, lastWrite, lastCall, probeVars>>

\* a read of the isOpen getter from outside execute
ReadIsOpen ==
    /\ breaker' = afterIsOpen(breaker, now)
    /\ hist' = [hist EXCEPT !.reads = 1 - @]
    /\ UNCHANGED <<now, storeVars, consumerVars, faultCount, lastWrite, lastCall, calls, probeVars>>

\* reset() is called
Reset ==
    /\ breaker' = reset(breaker)
    /\ hist' = [hist EXCEPT !.failures = 0, !.successes = 0, !.lastIn = "none"]
    /\ UNCHANGED <<now, storeVars, consumerVars, faultCount, lastWrite, lastCall, calls, probeVars>>

\* the configs tried: the failure threshold configured and the next one
BreakerConfigs ==
    {[PimcoreConfig EXCEPT !.failureThreshold = n] : n \in FailureThreshold..(FailureThreshold + 1)}

InitBreaker ==
    /\ Constructed
    /\ storeKind = "memory"
    /\ body = [m \in Msgs |-> WellFormed]
    /\ \E config \in BreakerConfigs : breaker = NewBreaker(config)
    /\ lastWrite = Unused
    /\ lastCall = Unused
    /\ calls = [c \in Calls |-> IdleCall]
    /\ hist = NoHist
    /\ keyProbe = Unused
    /\ registry = Unused
    /\ retry = Unused
    /\ polls = Unused
    /\ sync = Unused

NextBreaker ==
    \/ Tick
    \/ \E c \in Calls : Execute(c)
    \/ \E c \in Calls, ok \in BOOLEAN : Complete(c, ok)
    \/ \E c \in Calls : TimerFires(c)
    \/ ReadIsOpen
    \/ Reset

SpecBreaker == InitBreaker /\ [][NextBreaker]_vars

(***************************************************************************)
(* IdempotencyManager.generateKey, applied to two (entityId, eventId)      *)
(* pairs of id strings, some of which contain the text that separates the  *)
(* two ids in a key.                                                       *)
(***************************************************************************)
Separator == ":event:"

PlainIds == {"a", "b"}

IdStrings == PlainIds \cup {x \o Separator \o y : x, y \in PlainIds}

IdPairs == IdStrings \X IdStrings

GenerateKeys ==
    /\ keyProbe.out = <<>>
    /\ keyProbe' = [keyProbe EXCEPT !.out = <<generateKey(keyProbe.in[1][1], keyProbe.in[1][2]),
                                              generateKey(keyProbe.in[2][1], keyProbe.in[2][2])>>]
    /\ UNCHANGED <<timeVars, storeVars, queueVars, pollVars, metrics, taskVars, breaker, downVars,
                   lastWrite, lastCall, calls, hist, registry, retry, polls, sync>>

InitKey ==
    /\ Constructed
    /\ breaker = NewBreaker(PimcoreConfig)
    /\ storeKind = "memory"
    /\ body = [m \in Msgs |-> WellFormed]
    /\ lastWrite = Unused
    /\ lastCall = Unused
    /\ calls = Unused
    /\ hist = Unused
    /\ \E a, b \in IdPairs : keyProbe = [in |-> <<a, b>>, out |-> <<>>]
    /\ registry = Unused
    /\ retry = Unused
    /\ polls = Unused
    /\ sync = Unused

NextKey == GenerateKeys

SpecKey == InitKey /\ [][NextKey]_vars

(***************************************************************************)
(* getCircuitBreaker and the module-level circuitBreakers map: services    *)
(* ask for their breaker by name, each with its own config, and execute    *)
(* through the reference they were given; calls may run concurrently.      *)
(***************************************************************************)
NHandles == 3

\* the names the services ask with (pimcore.service.ts l.64, part_010 l.76)
Names == {"pimcore", "medusa"}

NoRegistry ==
    [byName |-> [n \in Names |-> 0],   \* circuitBreakers: name -> the breaker, 0 when absent
     instances |-> <<>>,               \* the CircuitBreaker objects constructed so far
     handles |-> <<>>,                 \* the references returned: [name, config, instance]
     inflight |-> <<>>,                \* reference -> operations admitted and not yet settled
     made |-> 0,                       \* execute calls made so far
     failures |-> [n \in Names |-> 0]] \* name -> failures in a row of the calls made for it

\* a getCircuitBreaker that constructs a breaker on every call; C22_OneBreakerPerName
\* rejects it
getCircuitBreakerAnew(reg, serviceName, config) ==
    [byName |-> [reg.byName EXCEPT ![serviceName] = Len(reg.instances) + 1],
     instances |-> Append(reg.instances, NewBreaker(config)),
     result |-> Len(reg.instances) + 1]

\* getCircuitBreaker(serviceName, config): the map and the objects afterwards, and the
\* object returned
getCircuitBreaker(reg, serviceName, config) ==
    IF reg.byName[serviceName] = 0
    THEN [byName |-> [reg.byName EXCEPT ![serviceName] = Len(reg.instances) + 1],
          instances |-> Append(reg.instances, NewBreaker(config)),
          result |-> Len(reg.instances) + 1]
    ELSE [byName |-> reg.byName, instances |-> reg.instances, result |-> reg.byName[serviceName]]

\* a service's onModuleInit asks for its breaker
GetCircuitBreaker(serviceName, config) ==
    /\ Len(registry.handles) < NHandles
    /\ LET got == getCircuitBreaker(registry, serviceName, config) IN
       registry' = [registry EXCEPT
                      !.byName = got.byName,
                      !.instances = got.instances,
                      !.handles = Append(@, [name |-> serviceName, config |-> config,
                                             instance |-> got.result]),
                      !.inflight = Append(@, 0)]
    /\ UNCHANGED <<now, storeVars, consumerVars, breaker, faultCount, lastWrite, lastCall, calls, hist,
                   keyProbe, retry, polls, sync>>

\* execute through reference h: the isOpen test on the object referred to; an admitted
\* operation is in flight
ExecuteVia(h) ==
    /\ h \in 1..Len(registry.handles)
    /\ registry.made < NCalls
    /\ LET i == registry.handles[h].instance
           cb == registry.instances[i]
       IN  registry' = [registry EXCEPT
                          !.instances[i] = afterIsOpen(cb, now),
                          !.inflight[h] = IF isOpen(cb, now) THEN @ ELSE @ + 1,
                          !.made = @ + 1]
    /\ UNCHANGED <<now, storeVars, consumerVars, breaker, faultCount, lastWrite, lastCall, calls, hist,
                   keyProbe, retry, polls, sync>>

\* an operation admitted through reference h settles and execute records the outcome
SettleVia(h, ok) ==
    /\ h \in 1..Len(registry.handles)
    /\ registry.inflight[h] > 0
    /\ LET i == registry.handles[h].instance
           n == registry.handles[h].name
       IN  registry' = [registry EXCEPT
                          !.instances[i] = afterExecute(@, [ok |-> ok, invocations |-> 1, sleeps |-> 0], now),
                          !.inflight[h] = @ - 1,
                          !.failures[n] = IF ok THEN 0 ELSE @ + 1]
    /\ UNCHANGED <<now, storeVars, consumerVars, breaker, faultCount, lastWrite, lastCall, calls, hist,
                   keyProbe, retry, polls, sync>>

InitRegistry ==
    /\ Constructed
    /\ breaker = NewBreaker(PimcoreConfig)
    /\ storeKind = "memory"
    /\ body = [m \in Msgs |-> WellFormed]
    /\ lastWrite = Unused
    /\ lastCall = Unused
    /\ calls = Unused
    /\ hist = Unused
    /\ keyProbe = Unused
    /\ registry = NoRegistry
    /\ retry = Unused
    /\ polls = Unused
    /\ sync = Unused

\* no step lets time pass: which object a reference is does not depend on the time
NextRegistry ==
    \/ \E serviceName \in Names, config \in BreakerConfigs : GetCircuitBreaker(serviceName, config)
    \/ \E h \in 1..NHandles : ExecuteVia(h)
    \/ \E h \in 1..NHandles, ok \in BOOLEAN : SettleVia(h, ok)

SpecRegistry == InitRegistry /\ [][NextRegistry]_vars

(***************************************************************************)
(* PimcoreService.upsertProduct, called directly: execute wraps the retry  *)
(* loop over doUpsertProduct.  NCalls calls may run concurrently, as the   *)
(* messages of a batch do; each attempt succeeds or fails; withTimeout's   *)
(* timer may fire while the loop is still running, and the loop then goes  *)
(* on, since nothing cancels it.                                           *)
(***************************************************************************)
\* the failureThreshold of the breaker tests (part_007 l.12)
TestThreshold == 3

\* the calls made: as many as open the breaker of the tests, and one more
Upserts == 1..(TestThreshold + 1)

UpsertConfigs ==
    {[PimcoreConfig EXCEPT !.failureThreshold = n] : n \in {FailureThreshold, TestThreshold}}

\* upsertProduct(product): execute's isOpen test; an admitted call starts withTimeout's
\* timer and retryWithBackoff, which invokes doUpsertProduct for the first time
UpsertProduct(c) ==
    /\ calls[c].pc = "idle"
    /\ \A c2 \in Upserts : c2 < c => calls[c2].pc # "idle"
    /\ breaker' = afterIsOpen(breaker, now)
    /\ calls' = [calls EXCEPT ![c] =
                   IF isOpen(breaker, now)
                   THEN [@ EXCEPT !.pc = "done", !.result = "open"]
                   ELSE [@ EXCEPT !.pc = "running", !.promise = "pending",
                                  !.admittedIn = afterIsOpen(breaker, now).state,
                                  !.invoked = @ + 1, !.attempts = 1]]
    /\ UNCHANGED <<now, storeVars, consumerVars, faultCount, lastWrite, lastCall, hist, probeVars>>

\* an invocation of doUpsertProduct returns: retryWithBackoff returns its value
AttemptSucceeds(c) ==
    /\ calls[c].attempts >= 1
    /\ Complete(c, TRUE)

\* an invocation of doUpsertProduct throws: before the last attempt the loop sleeps and
\* invokes it again, after the last it throws lastError
AttemptFails(c) ==
    /\ calls[c].pc \in {"running", "orphaned"}
    /\ calls[c].attempts >= 1
    /\ IF calls[c].attempts < MaxAttempts
       THEN /\ calls' = [calls EXCEPT ![c].attempts = @ + 1]
            /\ UNCHANGED <<now, storeVars, consumerVars, breaker, faultCount, lastWrite, lastCall, hist,
                           probeVars>>
       ELSE Complete(c, FALSE)

\* withTimeout's timer fires while the retry loop of call c is still running: execute
\* records the failure and rejects, the loop goes on
UpsertTimeout(c) ==
    /\ calls[c].pc = "running"
    /\ calls[c].attempts >= 1
    /\ CanFail
    /\ faultCount' = faultCount + 1
    /\ breaker' = afterExecute(breaker, [ok |-> FALSE, invocations |-> calls[c].attempts, sleeps |-> 0], now)
    /\ hist' = HistOutcome(hist, FALSE, breaker.state)
    /\ calls' = [calls EXCEPT ![c] = [@ EXCEPT !.pc = "orphaned",
                                                !.promise = Settle(@, "rejected"),
                                                !.recorded = @ + 1,
                                                !.result = "timeout"]]
    /\ UNCHANGED <<now, storeVars, consumerVars, lastWrite, lastCall, probeVars>>

InitUpsert ==
    /\ Constructed
    /\ storeKind = "memory"
    /\ body = [m \in Msgs |-> WellFormed]
    /\ \E config \in UpsertConfigs : breaker = NewBreaker(config)
    /\ lastWrite = Unused
    /\ lastCall = Unused
    /\ calls = [c \in Upserts |-> IdleCall]
    /\ hist = NoHist
    /\ keyProbe = Unused
    /\ registry = Unused
    /\ retry = Unused
    /\ polls = Unused
    /\ sync = Unused

NextUpsert ==
    \/ Tick
    \/ \E c \in Upserts : UpsertProduct(c)
    \/ \E c \in Upserts : AttemptSucceeds(c)
    \/ \E c \in Upserts : AttemptFails(c)
    \/ \E c \in Upserts : UpsertTimeout(c)

SpecUpsert == InitUpsert /\ [][NextUpsert]_vars

(***************************************************************************)
(* retryWithBackoff and calculateDelay, called directly.  Delays of a      *)
(* policy are counted in half milliseconds, so that a policy may give a    *)
(* delay that is no whole number of milliseconds; Math.random() is one of  *)
(* 0, 0.25, 0.5 and 0.75; what calculateDelay returns is whole             *)
(* milliseconds.                                                           *)
(***************************************************************************)
MaxBaseDelay == 3

MaxMaxDelay == 5

MaxIndex == 3

\* Math.random(), in quarters
Randoms == 0..3

\* Math.round(num / den) for a positive quotient: halves go up
Round(num, den) == (2 * num + den) \div (2 * den)

\* a calculateDelay that does not cap the delay; C29_DelayIsRoundedMin rejects it
calculateDelayUncapped(attempt, config, random) ==
    Round(config.baseDelayMs * config.exponentialBase ^ attempt, 2)

\* calculateDelay(attempt, config), Math.random() giving random / 4: config holds half
\* milliseconds, jitterFactor is (2 + random) / 4
calculateDelay(attempt, config, random) ==
    LET raw == config.baseDelayMs * config.exponentialBase ^ attempt
        delay == IF raw < config.maxDelayMs THEN raw ELSE config.maxDelayMs
    IN  IF config.jitter THEN Round(delay * (2 + random), 8) ELSE Round(delay, 2)

\* the policies tried
RetryConfigs ==
    [maxAttempts : 1..MaxAttempts, baseDelayMs : 1..MaxBaseDelay, maxDelayMs : 1..MaxMaxDelay,
     exponentialBase : 1..2, jitter : BOOLEAN]

\* what an invocation of the operation comes to: a value, or an error, which may be
\* marked non-retryable (IntegrationError.retryable)
Outcomes == {[ok |-> TRUE, retryable |-> TRUE], [ok |-> FALSE, retryable |-> TRUE],
             [ok |-> FALSE, retryable |-> FALSE]}

NoResult == [kind |-> "none", of |-> 0, wrapped |-> FALSE]

\* a return that does not leave the loop; C25_FirstSuccessReturns rejects it
returnsNever(res) == FALSE

\* try { return await operation() }: a value leaves the loop
returns(res) == res.ok

\* an exhaustion that throws a new error around the last one; C26_LastErrorRethrown
\* rejects it
thrownWrapped(lastError) == [kind |-> "error", of |-> lastError, wrapped |-> TRUE]

\* throw lastError
thrown(lastError) == [kind |-> "error", of |-> lastError, wrapped |-> FALSE]

\* a loop that sleeps after every failed attempt; C27_SleepsBetweenAttempts rejects it
sleepsAfterEvery(attempt, config) == TRUE

\* the test before calculateDelay and sleep: attempt < maxAttempts - 1
sleepsAfter(attempt, config) == attempt < config.maxAttempts - 1

\* retryWithBackoff is called with a policy and an operation whose invocations come to
\* the outcomes given
RetryInit(config, outcomes) ==
    [config |-> config,
     outcomes |-> outcomes,
     pc |-> "loop",           \* "loop" | "sleeping" | "returned" | "thrown"
     attempt |-> 0,           \* the loop variable
     invoked |-> <<>>,        \* the attempt of every invocation of the operation made
     slept |-> <<>>,          \* the sleeps taken: [after, ms, random]
     lastError |-> 0,         \* the invocation (1-based) that threw lastError, 0 for undefined
     result |-> NoResult]     \* what the caller got: the value or the error of invocation `of`

\* the loop body: the operation is invoked; its value is returned, or its error is kept
\* as lastError and the loop sleeps or goes on to the next attempt
Invoke ==
    /\ retry.pc = "loop"
    /\ retry.attempt < retry.config.maxAttempts
    /\ \E random \in Randoms :
         LET attempt == retry.attempt
             n == Len(retry.invoked) + 1
             res == retry.outcomes[n]
             run == [retry EXCEPT !.invoked = Append(@, attempt)]
         IN  retry' =
               IF returns(res)
               THEN [run EXCEPT !.pc = "returned", !.result = [kind |-> "value", of |-> n, wrapped |-> FALSE]]
               ELSE IF sleepsAfter(attempt, retry.config)
               THEN [run EXCEPT !.pc = "sleeping", !.lastError = n,
                                !.slept = Append(@, [after |-> attempt,
                                                     ms |-> calculateDelay(attempt, retry.config, random),
                                                     random |-> random])]
               ELSE [run EXCEPT !.attempt = @ + 1, !.lastError = n]
    /\ UNCHANGED <<timeVars, storeVars, consumerVars, breaker, faultCount, lastWrite, lastCall, calls, hist,
                   keyProbe, registry, polls, sync>>

\* the sleep is over: attempt++
Wake ==
    /\ retry.pc = "sleeping"
    /\ retry' = [retry EXCEPT !.pc = "loop", !.attempt = @ + 1]
    /\ UNCHANGED <<timeVars, storeVars, consumerVars, breaker, faultCount, lastWrite, lastCall, calls, hist,
                   keyProbe, registry, polls, sync>>

\* the loop is left: throw lastError
Throw ==
    /\ retry.pc = "loop"
    /\ retry.attempt >= retry.config.maxAttempts
    /\ retry' = [retry EXCEPT !.pc = "thrown", !.result = thrown(retry.lastError)]
    /\ UNCHANGED <<timeVars, storeVars, consumerVars, breaker, faultCount, lastWrite, lastCall, calls, hist,
                   keyProbe, registry, polls, sync>>

InitRetry ==
    /\ Constructed
    /\ breaker = NewBreaker(PimcoreConfig)
    /\ storeKind = "memory"
    /\ body = [m \in Msgs |-> WellFormed]
    /\ lastWrite = Unused
    /\ lastCall = Unused
    /\ calls = Unused
    /\ hist = Unused
    /\ keyProbe = Unused
    /\ registry = Unused
    /\ \E config \in RetryConfigs, outcomes \in [1..MaxAttempts -> Outcomes] :
          retry = RetryInit(config, outcomes)
    /\ polls = Unused
    /\ sync = Unused

NextRetry == Invoke \/ Wake \/ Throw

SpecRetry == InitRetry /\ [][NextRetry]_vars

(***************************************************************************)
(* calculateDelay alone: two calls with one policy, for any attempt index. *)
(***************************************************************************)
\* calculateDelay(attempt, config) is called
CalculateDelay(attempt) ==
    /\ Len(retry.log) < 2
    /\ \E random \in Randoms :
         retry' = [retry EXCEPT !.log = Append(@, [attempt |-> attempt,
                                                   ms |-> calculateDelay(attempt, retry.config, random),
                                                   random |-> random])]
    /\ UNCHANGED <<timeVars, storeVars, consumerVars, breaker, faultCount, lastWrite, lastCall, calls, hist,
                   keyProbe, registry, polls, sync>>

InitDelay ==
    /\ Constructed
    /\ breaker = NewBreaker(PimcoreConfig)
    /\ storeKind = "memory"
    /\ body = [m \in Msgs |-> WellFormed]
    /\ lastWrite = Unused
    /\ lastCall = Unused
    /\ calls = Unused
    /\ hist = Unused
    /\ keyProbe = Unused
    /\ registry = Unused
    /\ \E config \in RetryConfigs :
          /\ config.maxAttempts = MaxAttempts
          /\ retry = [config |-> config, log |-> <<>>]
    /\ polls = Unused
    /\ sync = Unused

NextDelay == \E attempt \in 0..MaxIndex : CalculateDelay(attempt)

SpecDelay == InitDelay /\ [][NextDelay]_vars

(***************************************************************************)
(* pollMessages as the interval timer invokes it: an invocation may come   *)
(* while an earlier one is still awaiting the queue or its batch, and      *)
(* onModuleDestroy may come at any time.                                   *)
(***************************************************************************)
NPolls == 4

Polls == 1..NPolls

NoPolls ==
    [at |-> [i \in Polls |-> "none"],   \* invocation -> "none" | "skipped" | "receiving" |
                                        \*   "dispatching" | "empty" | "failed" | "settled" |
                                        \*   "rejections" (batch settled, a dispatch rejected)
     promise |-> [i \in Polls |-> "none"],  \* the promise pollMessages returned: "none" |
                                        \*   "pending" | "resolved" | "rejected"
     receives |-> 0,                    \* calls of sqsService.receiveMessages
     batches |-> 0,                     \* calls of processMessageBatch
     atStop |-> <<>>]                   \* `at` as it was when onModuleDestroy ran, <<>> before

\* a guard that looks at isProcessing only; C31_NoCycleAfterStop rejects it
skipsWhenProcessing(processing, stop) == processing

\* a guard that looks at shouldStop only; C30_OnePollCycle rejects it
skipsWhenStopped(processing, stop) == stop

\* the guard of pollMessages: if (this.isProcessing || this.shouldStop) return
skips(processing, stop) == processing \/ stop

\* the timer invokes pollMessages: the guard, isProcessing = true and the call of
\* receiveMessages
PollMessages(i) ==
    /\ polls.at[i] = "none"
    /\ \A j \in Polls : j < i => polls.at[j] # "none"
    /\ IF skips(isProcessing, shouldStop)
       THEN /\ polls' = [polls EXCEPT !.at[i] = "skipped", !.promise[i] = "resolved"]
            /\ UNCHANGED isProcessing
       ELSE /\ polls' = [polls EXCEPT !.at[i] = "receiving", !.receives = @ + 1,
                                      !.promise[i] = "pending"]
            /\ isProcessing' = TRUE
    /\ UNCHANGED <<timeVars, storeVars, queueVars, shouldStop, cycle, metrics, taskVars, breaker, downVars,
                   lastWrite, lastCall, calls, hist, keyProbe, registry, retry, sync>>

\* receiveMessages returns messages: processMessageBatch is called
BatchReceived(i) ==
    /\ polls.at[i] = "receiving"
    /\ polls' = [polls EXCEPT !.at[i] = "dispatching", !.batches = @ + 1]
    /\ UNCHANGED <<timeVars, storeVars, queueVars, pollVars, metrics, taskVars, breaker, downVars,
                   lastWrite, lastCall, calls, hist, keyProbe, registry, retry, sync>>

\* receiveMessages returns no message or throws (the catch block logs the error), or
\* the batch has settled (Promise.allSettled fulfils whether or not a dispatch rejected;
\* processMessageBatch logs the rejections): the finally block, and pollMessages returns
PollReturns(i, how) ==
    /\ \/ polls.at[i] = "receiving" /\ how \in {"empty", "failed"}
       \/ polls.at[i] = "dispatching" /\ how \in {"settled", "rejections"}
    /\ polls' = [polls EXCEPT !.at[i] = how, !.promise[i] = "resolved"]
    /\ PollFinally
    /\ UNCHANGED <<timeVars, storeVars, queueVars, shouldStop, metrics, taskVars, breaker, downVars,
                   lastWrite, lastCall, calls, hist, keyProbe, registry, retry, sync>>

\* onModuleDestroy
Stop ==
    /\ ~shouldStop
    /\ shouldStop' = TRUE
    /\ polls' = [polls EXCEPT !.atStop = polls.at]
    /\ UNCHANGED <<timeVars, storeVars, queueVars, isProcessing, cycle, metrics, taskVars, breaker, downVars,
                   lastWrite, lastCall, calls, hist, keyProbe, registry, retry, sync>>

InitPoll ==
    /\ Constructed
    /\ breaker = NewBreaker(PimcoreConfig)
    /\ storeKind = "memory"
    /\ body = [m \in Msgs |-> WellFormed]
    /\ lastWrite = Unused
    /\ lastCall = Unused
    /\ calls = Unused
    /\ hist = Unused
    /\ keyProbe = Unused
    /\ registry = Unused
    /\ retry = Unused
    /\ polls = NoPolls
    /\ sync = Unused

NextPoll ==
    \/ \E i \in Polls : PollMessages(i)
    \/ \E i \in Polls : BatchReceived(i)
    \/ \E i \in Polls, how \in {"empty", "failed", "settled", "rejections"} : PollReturns(i, how)
    \/ Stop

SpecPoll == InitPoll /\ [][NextPoll]_vars

\* an awaited receiveMessages settles (its wait time is bounded) and so does the batch
\* (Promise.allSettled over dispatches that each end): a cycle in progress goes on
PollFairness ==
    \A i \in Polls :
        /\ WF_vars(BatchReceived(i) \/ \E how \in {"empty", "failed"} : PollReturns(i, how))
        /\ WF_vars(\E how \in {"settled", "rejections"} : PollReturns(i, how))

SpecPollFair == SpecPoll /\ PollFairness

(***************************************************************************)
(* Properties                                                              *)
(***************************************************************************)
\* a body the specification calls malformed: it cannot be parsed, or it lacks the
\* payload (product), the entity id or the event id
Malformed(b) == ~b.parses \/ ~b.hasProduct \/ b.productId = Undefined \/ b.eventId = Undefined

\* the status an unfailing get finds for key k at time t
Found(k, t) == IF Live(store[k], t) THEN store[k].status ELSE NOT_FOUND

\* no record has expired yet: the first record is written at time 1 or later and lives
\* until time 1 + TtlMs, every write restarts the TTL, and no action releases a record
NothingExpired == now < 1 + TtlMs

\* C1: while its record has neither expired nor been released, the upsert of a key
\* completes successfully at most once, whatever is delivered and redelivered and
\* whichever acknowledgement or status write fails.
C1_UpsertAtMostOnce == NothingExpired => \A k \in Keys : upserts[k] <= 1

\* C2: of two concurrent dispatches of messages with the same key, on a key without
\* a record, at most one gets NOT_FOUND from checkAndLock, and the two are never both
\* in the downstream call.
C2_OneDispatchProceeds ==
    \A m1, m2 \in Msgs :
        (m1 # m2 /\ KeyOf(m1) = KeyOf(m2) /\ faultCount = 0 /\ NothingExpired)
        => /\ ~(lockStatus[m1] = NOT_FOUND /\ lockStatus[m2] = NOT_FOUND)
           /\ ~(pc[m1] = "upsert" /\ pc[m2] = "upsert")

\* C3 (as amended): checkAndLock goes on to write when get yields no unexpired record,
\* because none exists or because the read failed; the write stores PROCESSING with a
\* fresh TTL and the call returns NOT_FOUND, or the write fails, the call rejects and
\* nothing is stored.  Otherwise the call returns the status found and leaves the
\* record and its expiry as they are.
C3_CheckAndLock ==
    [][\A m \in Msgs :
        LET k == KeyOf(m)
            found == Found(k, now')
            faulted == faultCount' # faultCount
        IN  /\ (pc[m] = "start" /\ pc'[m] # "start" /\ Reads(m)) =>
                 IF found = NOT_FOUND \/ faulted
                 THEN /\ pc'[m] = "lockSet"
                      /\ lockStatus'[m] = "none"
                      /\ store'[k] \in {store[k], NoEntry}
                 ELSE /\ pc'[m] # "lockSet"
                      /\ lockStatus'[m] = found
                      /\ store'[k] = store[k]
            /\ (pc[m] = "lockSet" /\ pc'[m] # "lockSet") =>
                 IF faulted
                 THEN /\ outcome'[m] = "rejected"
                      /\ lockStatus'[m] = "none"
                      /\ store' = store
                 ELSE /\ lockStatus'[m] = NOT_FOUND
                      /\ store'[k] = [status |-> PROCESSING, expiresAt |-> now' + TtlMs]
    ]_vars

\* checkAndLock answered PROCESSING to one dispatch after NOT_FOUND to another of the
\* same key, and COMPLETED or FAILED is reachable the same way
C3_Witness ==
    \E m1, m2 \in Msgs :
        /\ m1 # m2
        /\ KeyOf(m1) = KeyOf(m2)
        /\ lockStatus[m1] = NOT_FOUND
        /\ lockStatus[m2] = PROCESSING
        /\ store[KeyOf(m1)].status = PROCESSING

\* C3 (as stated): a checkAndLock that returns, returns NOT_FOUND exactly when no
\* unexpired record exists, and then creates a PROCESSING record; otherwise it returns
\* the status found and leaves the record unchanged.
C3_AsStated ==
    [][\A m \in Msgs :
        LET k == KeyOf(m)
            found == Found(k, now')
        IN  /\ (pc[m] = "start" /\ pc'[m] # "start" /\ Reads(m)) =>
                 /\ (found = NOT_FOUND) <=> (pc'[m] = "lockSet")
                 /\ (found # NOT_FOUND) => (lockStatus'[m] = found /\ store'[k] = store[k])
            /\ (pc[m] = "lockSet" /\ pc'[m] # "lockSet" /\ outcome'[m] # "rejected") =>
                 /\ lockStatus'[m] = NOT_FOUND
                 /\ store'[k].status = PROCESSING
    ]_vars

C5_Scenario(m) ==
    /\ Deliveries = 1
    /\ receiveCount[m] = 1
    /\ ~Malformed(body[m])
    /\ faultCount = 0
    /\ lockStatus[m] = NOT_FOUND
    /\ invocations[m] = MaxAttempts
    /\ upserts[KeyOf(m)] = 1

\* C5: one well-formed message on a fresh key whose downstream call fails twice and
\* then succeeds: the breaker stays CLOSED with no failure counted, and the dispatch
\* ends with the record COMPLETED, the message deleted and processed = 1, failed = 0,
\* skipped = 0.
C5_FailFailSucceed ==
    \A m \in Msgs :
        C5_Scenario(m) =>
            /\ breaker.state = CLOSED
            /\ breaker.failureCount = 0
            /\ metrics.failed = 0
            /\ metrics.skipped = 0
            /\ pc[m] \in {"markCompleted", "ack", "done"}
            /\ pc[m] = "done" =>
                 /\ outcome[m] = "resolved"
                 /\ store[KeyOf(m)].status = COMPLETED
                 /\ queue[m] = "deleted"
                 /\ metrics.processed = 1

\* the scenario has run to its end
C5_Witness == \E m \in Msgs : C5_Scenario(m) /\ pc[m] = "done" /\ metrics.processed = 1

FailureCauses == {"exhausted", "timeout", "breakerOpen"}

C8_MalformedIsDropped ==
    \A m \in Msgs :
        Malformed(body[m]) =>
            /\ pc[m] \notin {"lockSet", "upsert", "markCompleted", "ack", "markFailed"}
            /\ invocations[m] = 0
            /\ (pc[m] = "done" /\ faultCount = 0) => queue[m] = "deleted"

\* C9: when the only delivery so far was of a malformed message and that message has
\* been dropped, skipped is exactly 1 and processed and failed are 0.
C9_MalformedCountsAsSkipped ==
    \A m \in Msgs :
        (Deliveries = 1 /\ receiveCount[m] = 1 /\ ~Reads(m) /\ pc[m] = "done" /\ queue[m] = "deleted")
        => metrics = [processed |-> 0, skipped |-> 1, failed |-> 0]

\* C10: a record that is COMPLETED or FAILED keeps that status for as long as it has
\* not expired.
C10_TerminalStatusIsKept ==
    [][\A k \in Keys :
        (store[k].status \in {COMPLETED, FAILED} /\ Live(store[k], now'))
        => store'[k].status = store[k].status
    ]_vars

\* the statuses a record is set with
SetStatuses == {PROCESSING, COMPLETED, FAILED}

\* C11: a get that does not fail returns the record last set for the key while less
\* than the TTL has passed since that set, and reports the key absent once more than the
\* TTL has passed; until a call on the key the in-memory map keeps its entry, expired
\* or not, and the get that finds it expired removes it; a set replaces the whole entry
\* and restarts the TTL.
C11_GetHonoursTtl ==
    [][\A k \in UnitKeys :
        LET c == lastCall'
            w == lastWrite[k]
            age == now - w.at
            called == lastCall' # lastCall /\ c.key = k
        IN  /\ (called /\ c.op = "get" /\ ~c.failed /\ w.status \in SetStatuses) =>
                 /\ age < TtlMs => (c.result = w.status /\ store'[k] = store[k])
                 /\ age > TtlMs => (c.result = NOT_FOUND /\ ~Live(store'[k], now))
                 /\ (age > TtlMs /\ storeKind = "memory") =>
                        /\ store[k] \in {NoEntry, [status |-> w.status, expiresAt |-> w.at + TtlMs]}
                        /\ store'[k] = NoEntry
            /\ (called /\ c.op = "set" /\ ~c.failed) =>
                 /\ store'[k] = [status |-> lastWrite'[k].status, expiresAt |-> now + TtlMs]
                 /\ lastWrite'[k].at = now
            /\ (~called /\ storeKind = "memory") => store'[k] = store[k]
    ]_vars

\* the in-memory store was asked for a record after its TTL had passed: the map held
\* the entry no longer once get had reported the key absent
C11_Witness ==
    /\ storeKind = "memory"
    /\ lastCall.op = "get"
    /\ lastCall.result = NOT_FOUND
    /\ lastCall.prior.status = COMPLETED
    /\ lastCall.at - lastCall.prior.at > TtlMs
    /\ store[lastCall.key] = NoEntry

\* C12 (as amended): release resolves; when the store's delete succeeds the record of
\* the key is gone, whatever its status, no other key is touched, and a checkAndLock
\* of the key that comes next returns NOT_FOUND and stores PROCESSING with a fresh TTL;
\* releasing an absent key changes nothing; when the delete fails (Redis) the record
\* stays as it was.
C12_Release ==
    [][\A k \in UnitKeys :
        LET c == lastCall'
            called == lastCall' # lastCall /\ c.key = k
        IN  /\ (called /\ c.op = "release") =>
                 /\ c.result = "resolved"
                 /\ \A k2 \in Keys \ {k} : store'[k2] = store[k2]
                 /\ store'[k] = IF c.failed THEN store[k] ELSE NoEntry
                 /\ store[k] = NoEntry => store' = store
            /\ (called /\ c.op = "checkAndLock" /\ c.prior.status = RELEASED /\ ~c.failed) =>
                 /\ c.result = NOT_FOUND
                 /\ store'[k] = [status |-> PROCESSING, expiresAt |-> now + TtlMs]
    ]_vars

\* a key was released and the checkAndLock that came next locked it anew
C12_Witness ==
    /\ lastCall.op = "checkAndLock"
    /\ lastCall.prior.status = RELEASED
    /\ lastCall.result = NOT_FOUND
    /\ store[lastCall.key].status = PROCESSING

\* C12 (as stated): release(k) deletes k's record whatever its status.
C12_AsStated ==
    [][\A k \in UnitKeys :
        (lastCall' # lastCall /\ lastCall'.key = k /\ lastCall'.op = "release") => store'[k] = NoEntry
    ]_vars

\* C13: generateKey gives equal pairs equal keys and distinct pairs distinct keys, for
\* all id strings, those that contain the separator text included.
C13_KeysAreUnique ==
    keyProbe.out # <<>> => ((keyProbe.in[1] = keyProbe.in[2]) <=> (keyProbe.out[1] = keyProbe.out[2]))

\* execute recorded an outcome for call c in this step
Recorded(c) == calls'[c].recorded = calls[c].recorded + 1

Succeeded(c) == Recorded(c) /\ calls'[c].result = "value"

Failed(c) == Recorded(c) /\ calls'[c].result \in {"error", "timeout"}

\* call c is made in this step
Made(c) == calls[c].pc = "idle" /\ calls'[c].pc # "idle"

\* a step that is no execute call, no outcome, no read of isOpen and no passage of
\* time: reset()
ResetStep == calls' = calls /\ now' = now /\ hist'.reads = hist.reads

\* resetTimeout has passed since the last failure
Ripe(cb, t) == cb.lastFailureTime # NoTime /\ t - cb.lastFailureTime >= cb.config.resetTimeout

\* C14: while CLOSED, failureCount is the number of failures recorded in a row and is
\* below failureThreshold; a failure recorded while CLOSED opens the breaker exactly
\* when it is the failureThreshold-th in a row; a success recorded while CLOSED sets
\* failureCount to zero; and CLOSED is left for OPEN only, by such a failure only.
C14_OpensAtThreshold ==
    [][LET ft == breaker.config.failureThreshold IN
       /\ breaker.state = CLOSED => (breaker.failureCount = hist.failures /\ hist.failures < ft)
       /\ \A c \in Calls :
            /\ (breaker.state = CLOSED /\ Failed(c)) =>
                 /\ breaker'.state = IF hist.failures + 1 = ft THEN OPEN ELSE CLOSED
                 /\ breaker'.failureCount = hist.failures + 1
            /\ (breaker.state = CLOSED /\ Succeeded(c)) =>
                 /\ breaker'.state = CLOSED
                 /\ breaker'.failureCount = 0
       /\ breaker.state = CLOSED => breaker'.state \in {CLOSED, OPEN}
       /\ (breaker.state = CLOSED /\ breaker'.state = OPEN) =>
            \E c \in Calls : Failed(c) /\ hist'.failures = ft
    ]_vars

\* with failureThreshold 2: a failure, a success, then two failures in a row, the
\* second of which opened the breaker
C14_Witness ==
    /\ calls # Unused
    /\ breaker.config.failureThreshold = 2
    /\ breaker.state = OPEN
    /\ hist.failures = 2
    /\ breaker.failureCount = 2
    /\ \E c \in Calls : calls[c].result = "value"
    /\ Cardinality({c \in Calls : calls[c].result \in {"error", "timeout"}}) = 3

\* C15: an execute call made while the breaker is OPEN and less than resetTimeout has
\* passed since lastFailureTime is rejected as breaker-open without invoking the
\* operation, and records nothing: the breaker is exactly as before.
C15_OpenRejects ==
    [][\A c \in Calls :
        (Made(c) /\ breaker.state = OPEN /\ ~Ripe(breaker, now)) =>
            /\ calls'[c] = [IdleCall EXCEPT !.pc = "done", !.result = "open"]
            /\ breaker' = breaker
            /\ hist' = hist
    ]_vars

\* a call was rejected by the open breaker
C15_Witness ==
    /\ calls # Unused
    /\ breaker.state = OPEN
    /\ \E c \in Calls : calls[c].result = "open" /\ calls[c].invoked = 0 /\ calls[c].recorded = 0

\* C16: the breaker goes from OPEN to HALF_OPEN only in an execute call or a read of
\* isOpen made when resetTimeout has passed since lastFailureTime, and every such call
\* or read does it; the passage of time changes nothing; the admitted operation starts
\* with the state HALF_OPEN and successCount zero.
C16_LazyHalfOpen ==
    [][/\ (breaker.state = OPEN /\ breaker'.state = HALF_OPEN) =>
            /\ Ripe(breaker, now)
            /\ now' = now
            /\ breaker'.successCount = 0
            /\ \/ \E c \in Calls : Made(c) /\ calls'[c].pc = "running"
               \/ hist'.reads # hist.reads
       /\ (breaker.state = OPEN /\ Ripe(breaker, now)) =>
            /\ \A c \in Calls : Made(c) =>
                   /\ calls'[c].pc = "running"
                   /\ calls'[c].invoked = 1
                   /\ calls'[c].admittedIn = HALF_OPEN
                   /\ breaker'.state = HALF_OPEN
                   /\ breaker'.successCount = 0
            /\ hist'.reads # hist.reads => (breaker'.state = HALF_OPEN /\ breaker'.successCount = 0)
       /\ now' # now => breaker' = breaker
    ]_vars

\* the breaker was left OPEN while time passed, and the call made then runs as the trial
C16_Witness ==
    /\ calls # Unused
    /\ breaker.state = HALF_OPEN
    /\ breaker.successCount = 0
    /\ now - breaker.lastFailureTime > breaker.config.resetTimeout
    /\ \E c \in Calls : calls[c].pc = "running" /\ calls[c].admittedIn = HALF_OPEN

\* C17: while the breaker is HALF_OPEN and a call admitted as the trial is still
\* running, no other execute call has its operation invoked.
C17_OneTrialCall ==
    [][\A c1, c2 \in Calls :
        (/\ c1 # c2
         /\ breaker.state = HALF_OPEN
         /\ calls[c1].pc = "running"
         /\ calls[c1].admittedIn = HALF_OPEN
         /\ Made(c2))
        => calls'[c2].invoked = 0
    ]_vars

\* C18: while HALF_OPEN, successCount is the number of successes recorded in a row
\* since the breaker became HALF_OPEN and is below successThreshold; a success recorded
\* while HALF_OPEN closes the breaker exactly when it is the successThreshold-th, and
\* then failureCount and successCount are zero; apart from reset(), nothing else closes a
\* HALF_OPEN breaker.
C18_ClosesAtThreshold ==
    [][LET st == breaker.config.successThreshold IN
       /\ breaker.state = HALF_OPEN => (breaker.successCount = hist.successes /\ hist.successes < st)
       /\ \A c \in Calls :
            (breaker.state = HALF_OPEN /\ Succeeded(c)) =>
                IF hist.successes + 1 = st
                THEN /\ breaker'.state = CLOSED
                     /\ breaker'.failureCount = 0
                     /\ breaker'.successCount = 0
                ELSE /\ breaker'.state = HALF_OPEN
                     /\ breaker'.successCount = hist.successes + 1
       /\ (breaker.state = HALF_OPEN /\ breaker'.state = CLOSED) =>
            \/ \E c \in Calls : Succeeded(c) /\ hist'.successes = st
            \/ ResetStep
    ]_vars

\* the successThreshold-th success in a row closed the HALF_OPEN breaker
C18_Witness ==
    /\ calls # Unused
    /\ breaker.state = CLOSED
    /\ hist.successes = breaker.config.successThreshold
    /\ breaker.successCount = 0
    /\ breaker.failureCount = 0

\* C19: a failure recorded while HALF_OPEN opens the breaker, whatever failureCount and
\* successCount are, sets successCount to zero and lastFailureTime to the time of the
\* failure, so that resetTimeout runs anew.
C19_HalfOpenFailureOpens ==
    [][\A c \in Calls :
        (breaker.state = HALF_OPEN /\ Failed(c)) =>
            /\ breaker'.state = OPEN
            /\ breaker'.successCount = 0
            /\ breaker'.lastFailureTime = now
            /\ breaker'.failureCount = breaker.failureCount + 1
            /\ ~Ripe(breaker', now)
    ]_vars

\* a failure opened the HALF_OPEN breaker with failureCount below failureThreshold
C19_Witness ==
    /\ calls # Unused
    /\ breaker.state = OPEN
    /\ hist.lastIn = HALF_OPEN
    /\ hist.failures = 1
    /\ breaker.failureCount < breaker.config.failureThreshold
    /\ breaker.lastFailureTime = now

\* C20: a call whose operation outlasts the timeout is rejected and recorded as one
\* failure; every admitted call records one outcome and no more; and the completion of
\* the operation after the timeout changes nothing in the breaker.
C20_OneOutcomePerCall ==
    [][\A c \in Calls :
        /\ calls'[c].recorded <= 1
        /\ calls'[c].pc \in {"orphaned", "done"} => calls'[c].recorded = calls'[c].invoked
        /\ (calls[c].pc = "running" /\ calls'[c].pc = "orphaned") =>
              /\ calls'[c].result = "timeout"
              /\ calls'[c].promise = "rejected"
              /\ hist'.failures = hist.failures + 1
              /\ breaker'.failureCount = breaker.failureCount + 1
              /\ breaker'.lastFailureTime = now
        /\ (calls[c].pc = "orphaned" /\ calls'[c].pc # "orphaned") =>
              /\ calls'[c] = [calls[c] EXCEPT !.pc = "done", !.admittedIn = "none"]
              /\ breaker' = breaker
              /\ hist' = hist
    ]_vars

\* a call timed out, and its operation completed later
C20_Witness ==
    /\ calls # Unused
    /\ \E c \in Calls : calls[c].pc = "done" /\ calls[c].result = "timeout" /\ calls[c].recorded = 1

\* C21: reset(), called in any state, leaves the breaker CLOSED with failureCount and
\* successCount zero and lastFailureTime cleared, its config as it was; isOpen is then
\* false, and an execute call made while the breaker is as reset() left it is admitted
\* and its operation invoked.
C21_ResetCloses ==
    [][/\ ResetStep =>
            /\ breaker' = NewBreaker(breaker.config)
            /\ breaker'.state = CLOSED
            /\ breaker'.failureCount = 0
            /\ breaker'.successCount = 0
            /\ breaker'.lastFailureTime = NoTime
            /\ ~isOpen(breaker', now')
       /\ \A c \in Calls :
            (Made(c) /\ hist.lastIn = "none" /\ breaker = NewBreaker(breaker.config)) =>
                /\ calls'[c].pc = "running"
                /\ calls'[c].invoked = 1
                /\ calls'[c].admittedIn = CLOSED
    ]_vars

\* the breaker was OPEN and rejected a call; reset() was called after the last outcome
\* recorded, and the call made next was admitted by the CLOSED breaker
C21_Witness ==
    /\ calls # Unused
    /\ hist.lastIn = "none"
    /\ breaker.lastFailureTime = NoTime
    /\ \E c1, c2 \in Calls :
          /\ c1 < c2
          /\ calls[c1].result = "open"
          /\ calls[c2].pc = "running"
          /\ calls[c2].admittedIn = CLOSED

\* the first reference handed out for the name of reference h
First(reg, h) ==
    CHOOSE g \in 1..h : /\ reg.handles[g].name = reg.handles[h].name
                        /\ \A f \in 1..(g - 1) : reg.handles[f].name # reg.handles[h].name

\* C22: the references getCircuitBreaker returned for one name are all the same object,
\* which is the one in the map and has the config of the first call for the name (the
\* config of a later call is ignored), and those for different names are different
\* objects; the failureCount of that object is the number of failures in a row of all
\* the calls made for the name, concurrent ones included; and a call made for one name
\* changes nothing in the breaker of another.
C22_OneBreakerPerName ==
    [][LET reg == registry'
           H == 1..Len(reg.handles)
       IN  /\ \A g, h \in H :
                 (reg.handles[g].name = reg.handles[h].name)
                     <=> (reg.handles[g].instance = reg.handles[h].instance)
           /\ \A h \in H :
                 /\ reg.byName[reg.handles[h].name] = reg.handles[h].instance
                 /\ reg.instances[reg.handles[h].instance].config = reg.handles[First(reg, h)].config
                 /\ reg.instances[reg.handles[h].instance].failureCount = reg.failures[reg.handles[h].name]
           /\ Len(reg.instances) = Cardinality({reg.handles[h].name : h \in H})
           /\ \A h \in 1..Len(registry.handles) :
                 registry'.inflight[h] # registry.inflight[h] =>
                     \A g \in 1..Len(registry.handles) :
                         registry.handles[g].name # registry.handles[h].name =>
                             registry'.instances[registry.handles[g].instance]
                                 = registry.instances[registry.handles[g].instance]
           /\ (registry'.made # registry.made /\ registry'.inflight = registry.inflight) =>
                 registry'.instances = registry.instances
           /\ Len(registry'.handles) # Len(registry.handles) =>
                 \A i \in 1..Len(registry.instances) : registry'.instances[i] = registry.instances[i]
    ]_vars

\* two services asked for the breaker of one name with different configs and a third
\* for another name; two calls made for the first name failed in a row, and the breaker
\* of the other name is as constructed
C22_Witness ==
    /\ registry # Unused
    /\ Len(registry.handles) = 3
    /\ \E g, h, k \in 1..3 :
          /\ g < h
          /\ registry.handles[g].name = registry.handles[h].name
          /\ registry.handles[g].config # registry.handles[h].config
          /\ registry.handles[k].name # registry.handles[g].name
          /\ registry.instances[registry.handles[g].instance].failureCount = 2
          /\ registry.instances[registry.handles[g].instance].config = registry.handles[g].config
          /\ registry.failures[registry.handles[g].name] = 2
          /\ registry.instances[registry.handles[k].instance]
               = NewBreaker(registry.handles[k].config)

\* C23: one breaker failure is one upsertProduct whose retries are exhausted: a failure
\* is recorded for a call only when its last attempt has failed, and raises failureCount
\* by one; a call that succeeds raises it by nothing; and a failed attempt that is not
\* the last changes nothing in the breaker.
C23_OneFailurePerExhaustion ==
    [][\A c \in Upserts :
        /\ Failed(c) =>
              /\ breaker'.failureCount = breaker.failureCount + 1
              /\ calls[c].attempts = MaxAttempts
              /\ calls'[c].result = "error"
        /\ Succeeded(c) => breaker'.failureCount <= breaker.failureCount
        /\ (calls[c].attempts >= 1 /\ calls'[c].attempts > calls[c].attempts) => breaker' = breaker
    ]_vars

\* all attempts of call c failed, and execute raised the last error
Exhausted(c) ==
    calls[c].pc = "done" /\ calls[c].result = "error" /\ calls[c].attempts = MaxAttempts

\* C24: with failureThreshold n (3 in the scenario), when the first n upsertProduct calls
\* fail on every attempt, the breaker is CLOSED with failureCount n - 1 while the n-th
\* call has attempts left and OPEN with failureCount n once its retries are exhausted;
\* the call made next, before resetTimeout has passed, is rejected as breaker-open at
\* once: doUpsertProduct is not invoked and the breaker stays as it is.
C24_OpenAfterThreshold ==
    [][LET n == breaker.config.failureThreshold IN
       (n + 1 \in Upserts /\ calls[n + 1].pc = "idle" /\ \A c \in 1..(n - 1) : Exhausted(c)) =>
           /\ (calls[n].pc = "running") =>
                 /\ breaker.state = CLOSED
                 /\ breaker.failureCount = n - 1
           /\ Exhausted(n) =>
                 /\ breaker.state = OPEN
                 /\ breaker.failureCount = n
                 /\ (calls'[n + 1].pc # "idle" /\ ~Ripe(breaker, now)) =>
                       /\ calls'[n + 1] = [IdleCall EXCEPT !.pc = "done", !.result = "open"]
                       /\ breaker' = breaker
    ]_vars

\* failureThreshold 3: three calls failed on all their attempts, and the fourth was
\* rejected by the open breaker without an attempt
C24_Witness ==
    /\ calls # Unused
    /\ DOMAIN calls = Upserts
    /\ breaker.config.failureThreshold = 3
    /\ breaker.state = OPEN
    /\ breaker.failureCount = 3
    /\ \A c \in 1..3 : Exhausted(c)
    /\ calls[4].result = "open"
    /\ calls[4].attempts = 0
    /\ calls[4].invoked = 0

\* the first invocation that comes to a value, 0 when none of the maxAttempts does
FirstSuccess(run) ==
    LET S == {k \in 1..run.config.maxAttempts : run.outcomes[k].ok}
    IN  IF S = {} THEN 0 ELSE CHOOSE k \in S : \A j \in S : k <= j

\* C25: when the operation first succeeds on attempt k (1 <= k <= maxAttempts), it is
\* invoked k times and no more, for attempt = 0, 1, ... in turn; retryWithBackoff
\* returns as soon as the k-th invocation has, with the value of that invocation, and it
\* never throws.
C25_FirstSuccessReturns ==
    LET k == FirstSuccess(retry) IN
    (retry # Unused /\ k >= 1) =>
        /\ Len(retry.invoked) <= k
        /\ \A i \in 1..Len(retry.invoked) : retry.invoked[i] = i - 1
        /\ retry.pc # "thrown"
        /\ (Len(retry.invoked) = k) <=> (retry.pc = "returned")
        /\ retry.pc = "returned" => retry.result = [kind |-> "value", of |-> k, wrapped |-> FALSE]

\* with maxAttempts 3, the operation failed twice, then succeeded, and its third value
\* was returned
C25_Witness ==
    /\ retry # Unused
    /\ retry.config.maxAttempts = 3
    /\ retry.pc = "returned"
    /\ retry.invoked = <<0, 1, 2>>
    /\ retry.result.of = 3
    /\ ~retry.outcomes[1].ok /\ ~retry.outcomes[2].ok

\* C26: when the operation fails on all maxAttempts attempts, it is invoked maxAttempts
\* times and no more, and retryWithBackoff then throws the error of the last invocation
\* itself, not an error made around it; it never returns a value.
C26_LastErrorRethrown ==
    (retry # Unused /\ FirstSuccess(retry) = 0) =>
        /\ Len(retry.invoked) <= retry.config.maxAttempts
        /\ \A i \in 1..Len(retry.invoked) : retry.invoked[i] = i - 1
        /\ retry.pc # "returned"
        /\ retry.pc = "thrown" =>
              /\ Len(retry.invoked) = retry.config.maxAttempts
              /\ retry.result = [kind |-> "error", of |-> retry.config.maxAttempts, wrapped |-> FALSE]

\* with maxAttempts 3, three invocations failed and the third error was thrown
C26_Witness ==
    /\ retry # Unused
    /\ retry.config.maxAttempts = 3
    /\ retry.pc = "thrown"
    /\ retry.invoked = <<0, 1, 2>>
    /\ retry.result.kind = "error"
    /\ retry.result.of = 3

\* C27: the i-th sleep follows the i-th invocation, which failed and was not the last
\* one allowed, and lasts what calculateDelay gave for that invocation's attempt index;
\* every invocation but the first follows a sleep; so there is one sleep between two
\* invocations, none after the last attempt or after a success, and when
\* retryWithBackoff has ended the sleeps are one fewer than the invocations.  The loop
\* run in one go (retryWithBackoff, as the consumer's upsert uses it) gives the same
\* counts.
C27_SleepsBetweenAttempts ==
    retry # Unused =>
        LET made == Len(retry.invoked)
            sleeps == Len(retry.slept)
        IN  /\ \A i \in 1..sleeps :
                  /\ i <= made
                  /\ retry.slept[i].after = retry.invoked[i]
                  /\ retry.slept[i].after = i - 1
                  /\ retry.slept[i].after < retry.config.maxAttempts - 1
                  /\ ~retry.outcomes[i].ok
                  /\ retry.slept[i].ms = calculateDelay(i - 1, retry.config, retry.slept[i].random)
            /\ retry.pc = "sleeping" => sleeps = made
            /\ retry.pc = "loop" =>
                  \/ sleeps = made /\ retry.attempt = made /\ retry.attempt < retry.config.maxAttempts
                  \/ sleeps = made - 1 /\ retry.attempt = retry.config.maxAttempts
            /\ retry.pc \in {"returned", "thrown"} =>
                  /\ sleeps = made - 1
                  /\ retry.config.maxAttempts = MaxAttempts =>
                        retryWithBackoff([i \in 1..MaxAttempts |-> retry.outcomes[i].ok])
                            = [ok |-> retry.pc = "returned", invocations |-> made, sleeps |-> sleeps]

\* with maxAttempts 3 and jitter, three invocations failed with two sleeps in between,
\* of different lengths, and none after the third
C27_Witness ==
    /\ retry # Unused
    /\ retry.config.maxAttempts = 3
    /\ retry.config.jitter
    /\ retry.pc = "thrown"
    /\ Len(retry.invoked) = 3
    /\ Len(retry.slept) = 2
    /\ retry.slept[1].ms # retry.slept[2].ms

\* C28: an invocation that fails with an error marked non-retryable is the last one:
\* no sleep and no further invocation follows it.
C28_NonRetryableNotRetried ==
    retry # Unused =>
        \A i \in 1..Len(retry.invoked) :
            (~retry.outcomes[i].ok /\ ~retry.outcomes[i].retryable) =>
                /\ Len(retry.invoked) = i
                /\ Len(retry.slept) < i

\* min(baseDelay * exponentialBase^n, maxDelay), in half milliseconds
MinDelay(config, n) ==
    LET raw == config.baseDelayMs * config.exponentialBase ^ n
    IN  IF raw <= config.maxDelayMs THEN raw ELSE config.maxDelayMs

\* C29 as stated: without jitter calculateDelay(n) is min(baseDelay * exponentialBase^n,
\* maxDelay) exactly, is non-decreasing in n and never exceeds maxDelay.
C29_AsStated ==
    (retry # Unused /\ ~retry.config.jitter) =>
        /\ \A i \in 1..Len(retry.log) :
              /\ 2 * retry.log[i].ms = MinDelay(retry.config, retry.log[i].attempt)
              /\ 2 * retry.log[i].ms <= retry.config.maxDelayMs
        /\ \A i, j \in 1..Len(retry.log) :
              retry.log[i].attempt <= retry.log[j].attempt => retry.log[i].ms <= retry.log[j].ms

\* C29: without jitter calculateDelay(n) is min(baseDelay * exponentialBase^n, maxDelay)
\* rounded to whole milliseconds, a half going up: it is that minimum exactly when the
\* minimum is a whole number of milliseconds, and otherwise half a millisecond more; it
\* is non-decreasing in n (exponentialBase >= 1) and never exceeds maxDelay rounded in
\* the same way.
C29_DelayIsRoundedMin ==
    (retry # Unused /\ ~retry.config.jitter) =>
        /\ \A i \in 1..Len(retry.log) :
              LET m == MinDelay(retry.config, retry.log[i].attempt)
                  ms == retry.log[i].ms
              IN  /\ m <= 2 * ms
                  /\ 2 * ms <= m + 1
                  /\ m % 2 = 0 => 2 * ms = m
                  /\ 2 * ms <= retry.config.maxDelayMs + 1
        /\ \A i, j \in 1..Len(retry.log) :
              retry.log[i].attempt <= retry.log[j].attempt => retry.log[i].ms <= retry.log[j].ms

\* without jitter, baseDelay 1 ms, exponentialBase 2, maxDelay 2.5 ms: calculateDelay(0)
\* is 1 and calculateDelay(2) is 3, the cap rounded
C29_Witness ==
    /\ retry # Unused
    /\ ~retry.config.jitter
    /\ retry.config.baseDelayMs = 2
    /\ retry.config.exponentialBase = 2
    /\ retry.config.maxDelayMs = 5
    /\ Len(retry.log) = 2
    /\ retry.log[1].attempt = 0 /\ retry.log[1].ms = 1
    /\ retry.log[2].attempt = 2 /\ retry.log[2].ms = 3

\* the invocations of pollMessages that are past the guard and have not returned
Active(p) == {i \in Polls : p.at[i] \in {"receiving", "dispatching"}}

\* C30: at most one invocation of pollMessages is past the guard at any time, and
\* isProcessing tells whether one is; an invocation that comes while another has not
\* finished returns at the guard: no receiveMessages, no processMessageBatch, and
\* nothing changed.
C30_OnePollCycle ==
    [][/\ Cardinality(Active(polls')) <= 1
       /\ isProcessing' <=> Active(polls') # {}
       /\ \A i \in Polls :
            (polls.at[i] = "none" /\ polls'.at[i] # "none" /\ Active(polls) # {}) =>
                /\ polls'.at[i] = "skipped"
                /\ polls'.receives = polls.receives
                /\ polls'.batches = polls.batches
                /\ isProcessing' = isProcessing
                /\ Active(polls') = Active(polls)
    ]_vars

\* before any stop signal, an invocation came while an earlier one was dispatching its
\* batch, and returned at the guard
C30_Witness ==
    /\ polls # Unused
    /\ ~shouldStop
    /\ polls.receives = 1
    /\ \E i, j \in Polls : i < j /\ polls.at[i] = "dispatching" /\ polls.at[j] = "skipped"

C32_AsStated ==
    [][\A m1, m2 \in Msgs :
        (/\ m1 # m2
         /\ pc[m1] # "idle" /\ pc[m2] # "idle"
         /\ receiveCount[m1] = 1 /\ receiveCount[m2] = 1
         /\ cause[m1] \in {"exhausted", "timeout"}
         /\ cause[m2] = "none")
        => cause'[m2] # "breakerOpen"
    ]_vars

\* C32: every message received is dispatched, and the cycle ends only when every
\* dispatch has ended, rejected ones included; a step of one dispatch changes nothing in
\* another dispatch, in another message or in the record of another key.  What the
\* dispatches of a batch share is the breaker: the failure of one may open it, and a
\* dispatch that reaches upsertProduct after that fails as breaker-open.
C32_BatchIsSettled ==
    [][/\ \A m \in Msgs : (queue[m] = "visible" /\ queue'[m] = "inflight") => pc'[m] = "start"
       /\ (cycle = "dispatching" /\ cycle' # "dispatching") =>
             \A m \in Msgs : pc[m] \in {"idle", "done"}
       /\ (\E m \in Msgs : pc'[m] \notin {"idle", "done"}) => (cycle' = "dispatching" /\ isProcessing')
       /\ \A m \in Msgs :
             (cycle' = cycle /\ pc'[m] # pc[m]) =>
                 /\ \A m2 \in Msgs \ {m} :
                       /\ pc'[m2] = pc[m2]
                       /\ lockStatus'[m2] = lockStatus[m2]
                       /\ invocations'[m2] = invocations[m2]
                       /\ ackIssued'[m2] = ackIssued[m2]
                       /\ outcome'[m2] = outcome[m2]
                       /\ cause'[m2] = cause[m2]
                       /\ queue'[m2] = queue[m2]
                       /\ receiveCount'[m2] = receiveCount[m2]
                 /\ \A k \in Keys \ {KeyOf(m)} : store'[k] = store[k] /\ upserts'[k] = upserts[k]
       /\ \A m \in Msgs :
             (cause[m] = "none" /\ cause'[m] = "breakerOpen") => breaker.state = OPEN
    ]_vars

\* one message of a batch failed on every attempt; the other, of another key, was
\* upserted, marked COMPLETED, deleted and counted
C32_Witness ==
    \E m1, m2 \in Msgs :
        /\ KeyOf(m1) # KeyOf(m2)
        /\ receiveCount[m1] = 1 /\ receiveCount[m2] = 1
        /\ pc[m1] = "done" /\ outcome[m1] = "rejected" /\ cause[m1] = "exhausted"
        /\ pc[m2] = "done" /\ outcome[m2] = "resolved"
        /\ upserts[KeyOf(m2)] = 1
        /\ store[KeyOf(m2)].status = COMPLETED
        /\ queue[m2] = "deleted"
        /\ metrics.processed = 1

\* C33: the promise of pollMessages is never rejected, neither after a receive failure
\* nor after a batch in which a dispatch rejected; when a cycle ends, however it ends,
\* isProcessing is false; and an invocation that comes with no cycle in progress and
\* no stop signal starts a new cycle, whatever the cycles before it came to.
C33_PollNeverRejects ==
    [][/\ \A i \in Polls : polls'.promise[i] # "rejected"
       /\ \A i \in Polls :
            (polls.at[i] \in {"receiving", "dispatching"}
                /\ polls'.at[i] \in {"empty", "failed", "settled", "rejections"}) =>
                /\ ~isProcessing'
                /\ polls'.promise[i] = "resolved"
       /\ \A i \in Polls :
            (polls.at[i] = "none" /\ polls'.at[i] # "none" /\ ~shouldStop /\ Active(polls) = {}) =>
                /\ polls'.at[i] = "receiving"
                /\ polls'.receives = polls.receives + 1
    ]_vars

\* one cycle ended with a receive failure, a later one with a batch in which a dispatch
\* rejected, and a third cycle is under way
C33_Witness ==
    /\ polls # Unused
    /\ \E i, j, k \in Polls :
          /\ i < j /\ j < k
          /\ polls.at[i] = "failed"
          /\ polls.promise[i] = "resolved"
          /\ polls.at[j] = "rejections"
          /\ polls.promise[j] = "resolved"
          /\ polls.at[k] = "receiving"

\* C34: a dispatch whose read of the idempotency record fails goes the way of a key
\* that was not found, whatever the store holds for the key: it is neither rejected nor
\* ended nor acknowledged, it goes on to write the PROCESSING record, and once that
\* write succeeds it calls processProduct with lock status NOT_FOUND.
C34_ReadFailureIsNotFound ==
    [][\A m \in Msgs :
         /\ (pc[m] = "start" /\ pc'[m] # "start" /\ faultCount' > faultCount) =>
               /\ pc'[m] = "lockSet"
               /\ outcome'[m] = outcome[m]
               /\ ~ackIssued'[m]
               /\ store' = store
               /\ metrics' = metrics
         /\ (pc[m] = "lockSet" /\ cause[m] = "storeRead" /\ pc'[m] # "lockSet"
                /\ faultCount' = faultCount) =>
               /\ pc'[m] \in {"upsert", "markFailed"}
               /\ pc'[m] = "markFailed" => cause'[m] = "breakerOpen"
               /\ lockStatus'[m] = NOT_FOUND
               /\ store'[KeyOf(m)].status = PROCESSING
    ]_vars

\* the read failed for a key that had already been upserted, and the redelivery is in
\* processProduct again
C34_Witness ==
    \E m \in Msgs :
        /\ storeKind = "redis"
        /\ pc[m] = "upsert"
        /\ cause[m] = "storeRead"
        /\ lockStatus[m] = NOT_FOUND
        /\ upserts[KeyOf(m)] >= 1

\* the record of key k is PROCESSING and no attempt on k is in flight
Stuck(k) == store[k].status = PROCESSING /\ k \notin InFlight

\* C35 as stated: every redelivery of a key whose record is left PROCESSING with no
\* attempt in flight is left alone until the record has expired.
C35_AsStated ==
    [][\A m \in Msgs :
         (pc[m] = "start" /\ pc'[m] \notin {"start", "idle"} /\ Reads(m) /\ Stuck(KeyOf(m))
             /\ ~Expired(store[KeyOf(m)], now')) =>
               /\ pc'[m] = "done"
               /\ ~ackIssued'[m]
               /\ upserts' = upserts
    ]_vars

\* C35: no step of the consumer removes a record: a PROCESSING record goes only by
\* expiring (or with the in-memory store of a process that ended), and the end of the
\* process leaves the records of a Redis store as they are.  While a key's record is
\* PROCESSING with no attempt in flight and has not expired, a redelivery of the key
\* that reads the record returns with the message un-acknowledged, no downstream call
\* and the record as it was; a redelivery that comes after the record has expired is
\* processed again; a redelivery whose read fails goes the way of a key not found.
C35_StuckUntilTtl ==
    [][/\ \A k \in Keys :
            (store[k].status = PROCESSING /\ store'[k].status = NOT_FOUND) =>
                \/ Expired(store[k], now')
                \/ storeKind = "memory" /\ Attempting # {} /\ pc' = [m \in Msgs |-> "idle"]
       /\ (storeKind = "redis" /\ Attempting # {} /\ pc' = [m \in Msgs |-> "idle"]) => store' = store
       /\ \A m \in Msgs :
            (pc[m] = "start" /\ pc'[m] \notin {"start", "idle"} /\ Reads(m) /\ Stuck(KeyOf(m))) =>
                IF faultCount' > faultCount
                THEN pc'[m] = "lockSet"
                ELSE IF Expired(store[KeyOf(m)], now')
                THEN pc'[m] = "lockSet"
                ELSE /\ pc'[m] = "done"
                     /\ outcome'[m] = "resolved"
                     /\ ~ackIssued'[m]
                     /\ queue'[m] = "inflight"
                     /\ upserts' = upserts
                     /\ invocations' = invocations
                     /\ store' = store
    ]_vars

\* a process ended during the attempt on a key; the record stayed PROCESSING in Redis
\* and a redelivery of the key was left alone
C35_Witness ==
    \E m \in Msgs :
        /\ storeKind = "redis"
        /\ faultCount = 0
        /\ receiveCount[m] = 2
        /\ pc[m] = "done"
        /\ lockStatus[m] = PROCESSING
        /\ outcome[m] = "resolved"
        /\ queue[m] = "inflight"
        /\ Stuck(KeyOf(m))

\* C36: whenever a downstream call for a key is in flight, the key's record, unless it
\* has expired meanwhile, is PROCESSING; a dispatch that found the record FAILED has put
\* it back to PROCESSING when it calls downstream.
C36_InFlightIsProcessing ==
    \A m \in Msgs :
        pc[m] = "upsert" =>
            \/ store[KeyOf(m)].status = PROCESSING
            \/ Expired(store[KeyOf(m)], now)

\* C37: a delete is issued only for a message that failed the format check or whose
\* key's record is, at that moment, COMPLETED and live; on the success path the delete
\* is issued by the step in which markCompleted's write succeeded; a message leaves the
\* queue only through a delete that was issued; and a dispatch that ends or fails
\* without having found or written COMPLETED issues no delete.
C37_AckOnlyWhenCompleted ==
    [][\A m \in Msgs :
         /\ (~ackIssued[m] /\ ackIssued'[m]) =>
               \/ body[m].parses /\ ~body[m].hasProduct /\ pc'[m] = "ackInvalid"
               \/ /\ Reads(m)
                  /\ store'[KeyOf(m)].status = COMPLETED
                  /\ ~Expired(store'[KeyOf(m)], now')
                  /\ pc'[m] \in {"ack", "ackDuplicate"}
         /\ (pc[m] # "ack" /\ pc'[m] = "ack") =>
               /\ pc[m] = "markCompleted"
               /\ store'[KeyOf(m)] = [status |-> COMPLETED, expiresAt |-> now' + TtlMs]
         /\ (queue[m] # "deleted" /\ queue'[m] = "deleted") =>
               /\ ackIssued[m]
               /\ pc[m] \in {"ack", "ackInvalid", "ackDuplicate"}
         /\ (pc[m] \in {"start", "lockSet", "upsert", "markFailed"} /\ pc'[m] \in {"done", "markFailed"}) =>
               /\ queue'[m] = queue[m]
               /\ ackIssued'[m] = ackIssued[m]
    ]_vars

\* one message was deleted as malformed, and the delete of another is issued after its
\* record was written COMPLETED
C37_Witness ==
    \E m1, m2 \in Msgs :
        /\ body[m1].parses /\ ~body[m1].hasProduct
        /\ queue[m1] = "deleted"
        /\ pc[m2] = "ack"
        /\ ackIssued[m2]
        /\ lockStatus[m2] = NOT_FOUND
        /\ store[KeyOf(m2)].status = COMPLETED

\* C38: in every state of the breaker, whatever the order in which concurrent calls of
\* execute were admitted and completed and reset was called, successCount is below
\* successThreshold, and a CLOSED breaker has failureCount below failureThreshold and
\* successCount zero.
C38_CountersInRange ==
    /\ breaker.config.failureThreshold >= 1
    /\ breaker.config.successThreshold >= 1
    /\ breaker.successCount >= 0
    /\ breaker.successCount < breaker.config.successThreshold
    /\ breaker.state = CLOSED =>
          /\ breaker.failureCount >= 0
          /\ breaker.failureCount < breaker.config.failureThreshold
          /\ breaker.successCount = 0

\* a breaker that was reset while two calls admitted in HALF_OPEN were in flight: one
\* of them has failed since, the breaker is CLOSED with one failure below its threshold,
\* and the other is still running
C38_Witness ==
    /\ calls # Unused
    /\ breaker.state = CLOSED
    /\ breaker.failureCount = 1
    /\ breaker.lastFailureTime # NoTime
    /\ \E c1, c2 \in Calls :
          /\ c1 # c2
          /\ calls[c1].pc = "running" /\ calls[c1].admittedIn = HALF_OPEN
          /\ calls[c2].pc = "done" /\ calls[c2].result = "error"
          /\ hist.lastIn = CLOSED

\* C39: while the breaker is HALF_OPEN, the outcome of a call that was admitted while
\* it was CLOSED changes neither successCount nor the state.
C39_OnlyProbesDriveHalfOpen ==
    [][\A c \in Calls :
         (/\ breaker.state = HALF_OPEN
          /\ calls[c].admittedIn = CLOSED
          /\ calls'[c].recorded = calls[c].recorded + 1) =>
               /\ breaker'.successCount = breaker.successCount
               /\ breaker'.state = HALF_OPEN
    ]_vars

\* C40: the listener of product.synced.pimcore is started once for every upsertProduct
\* call that resolved, and never otherwise; the dispatch of a resolved upsert goes on to
\* markCompleted; and no step of a listener, whether its Medusa calls succeed or fail,
\* changes a record, the queue, a counter, the breaker or a dispatch.
C40_SyncFollowsUpsert ==
    [][\A m \in Msgs :
         /\ Len(sync'.listeners[m]) - Len(sync.listeners[m]) = sync'.returned[m] - sync.returned[m]
         /\ sync'.returned[m] = sync.returned[m] + 1 => pc'[m] = "markCompleted"
         /\ (pc[m] = "upsert" /\ pc'[m] = "markFailed") => sync'.listeners[m] = sync.listeners[m]
         /\ (sync'.listeners[m] # sync.listeners[m] /\ sync'.returned[m] = sync.returned[m]) =>
               UNCHANGED <<timeVars, storeVars, consumerVars, breaker>>
    ]_vars

====
